---- MODULE Spec2Model ----
(***************************************************************************)
(* A model of the EVM executor of evm-from-scrustch.                       *)
(*                                                                         *)
(* The repository holds two executors that share one opcode table:         *)
(*   - "ctx":    ExecutionContext::run (src/src/lib.rs) driving the opcode *)
(*               table of src/src/opcode.rs.  The context is at once the   *)
(*               frame (pc, stack, memory) and the host (state, logs).     *)
(*   - "interp": Interpreter::run (src/src/interpreter/mod.rs) driving the *)
(*               opcode table of src/src/interpreter/opcodes/mod.rs over a *)
(*               Host.  The only execute_call of the repository is         *)
(*               ExecutionContext::execute_call, so the host is an         *)
(*               ExecutionContext and every child frame it starts is run   *)
(*               by ExecutionContext::run.                                 *)
(* The two opcode tables are the same text up to the renaming              *)
(* ctx.* <-> interp.* / host.*, except for STOP, RETURN and REVERT; an     *)
(* opcode is therefore modelled once, over a view X of the executing       *)
(* frame and its host, with the engine as a parameter where they differ.   *)
(*                                                                         *)
(* Recursion (execute_call -> sub_ctx.run) is modelled with an explicit    *)
(* sequence of frames; calls[i] is the call opcode suspended in frame i.   *)
(* Words are naturals (the value of the 32-byte big-endian word); the      *)
(* programs of the model never leave the range 0 .. 2^31 - 1.              *)
(***************************************************************************)
EXTENDS Integers, Sequences, FiniteSets, TLC

VARIABLES
    engine,        \* "ctx" | "interp": which run loop executes the top frame
    interp,        \* the Interpreter (engine = "interp"), else NoInterp
    frames,        \* ExecutionContext records; frames[1] is the top one / the host
    calls,         \* suspended call opcodes, calls[i] made from level i
    status,        \* "running" | "done" | "panic" (process abort)
    result,        \* EvmResult of the top-level run once status = "done"
    lastCall,      \* history: the last completed sub-call
    lastFinal,     \* history: the last finalized frame
    lastTransfer,  \* history: the last State::transfer invocation
    lastStep,      \* history: the last opcode a run loop decoded and executed
    lastCreate,    \* history: the last completed CREATE
    input,         \* the test case main builds its ExecutionContext from
    firstRun,      \* the outcome of the first run of the test case, once it is over
    unit,          \* the object under test of StorageSpec / MemorySpec
    tick           \* parity of the number of steps taken

vars == <<engine, interp, frames, calls, status, result, lastCall, lastFinal,
          lastTransfer, lastStep, lastCreate, input, firstRun, unit, tick>>

----------------------------------------------------------------------------
(* Bounds of the model *)

\* maximal number of nested frames explored
MaxDepth == 4

\* the gas counter of a frame is kept up to this value
MaxGas == 8000

\* storage keys 0 .. MaxKey and stored values 0 .. MaxValue of StorageSpec
MaxKey == 2

MaxValue == 2

\* offsets 0 .. MaxOffset and at most MaxOps operations of MemorySpec
MaxOffset == 3

MaxOps == 3

(* Program constants *)

\* Stack::new sets max_depth
StackMaxDepth == 1024

\* addresses of the scenario accounts: A is the contract the top-level run
\* executes, B, C are callee contracts, D is an account that does not exist,
\* O is an externally owned account, None is never in the state
Addr == [A |-> 1, B |-> 2, C |-> 3, D |-> 4, O |-> 5, None |-> 6]

----------------------------------------------------------------------------
(* Generic helpers *)

Zeros(n) == [i \in 1..n |-> 0]

Reverse(s) == [i \in 1..Len(s) |-> s[Len(s) + 1 - i]]

\* s without its last n elements
DropLast(s, n) == SubSeq(s, 1, Len(s) - n)

\* the n-th element from the top of a Vec-backed stack (1 = top)
Top(s, n) == s[Len(s) + 1 - n]

----------------------------------------------------------------------------
(* types.rs *)

\* Bytes::zero(): a buffer holding ONE zero byte
Bytes_zero == <<0>>

\* Bytes::new(): the empty buffer
Bytes_new == <<>>

\* Bytes32::as_bytes of a word: its 32 big-endian bytes
Bytes32_as_bytes(v) ==
    Zeros(28) \o << (v \div 16777216) % 256, (v \div 65536) % 256,
                    (v \div 256) % 256, v % 256 >>

\* Bytes32::get_byte(31): the least significant byte
Bytes32_low_byte(v) == v % 256

----------------------------------------------------------------------------
(* Memory.  The two-argument load / store used by the opcode tables is not *)
(* in the sources (src/src/memory.rs is an older one-argument API), so it  *)
(* follows the specification: growth to ceil((offset+size)/32)*32, zero    *)
(* filled.                                                                 *)

Memory_grow(m, offset, size) ==
    LET need == ((offset + size + 31) \div 32) * 32
    IN  IF need > Len(m) THEN m \o Zeros(need - Len(m)) ELSE m

Memory_load(m, offset, size) ==
    LET g == Memory_grow(m, offset, size)
    IN  [memory |-> g, data |-> SubSeq(g, offset + 1, offset + size)]

Memory_store(m, offset, bytes) ==
    LET g == Memory_grow(m, offset, Len(bytes))
    IN  [i \in 1..Len(g) |->
            IF i > offset /\ i <= offset + Len(bytes) THEN bytes[i - offset] ELSE g[i]]

Memory_expansion(m, offset, size) ==
    IF offset + size > Len(m) THEN offset + size - Len(m) ELSE 0

(* src/src/memory.rs as it is written: Vec::resize(n, 0) when the access    *)
(* passes the end                                                          *)

Memory_resize(m, n) == IF n > Len(m) THEN m \o Zeros(n - Len(m)) ELSE m

\* Memory::load(offset): the 32 bytes at offset
Memory_load32(m, offset) ==
    LET g == Memory_resize(m, offset + 32)
    IN  [memory |-> g, data |-> SubSeq(g, offset + 1, offset + 32)]

\* Memory::store(offset, value): value.len() / 32 whole words are the
\* destination; copy_from_slice panics when value is not that long
Memory_store_words(m, offset, value) ==
    LET words == Len(value) \div 32
        g == Memory_resize(m, offset + words * 32)
    IN  IF Len(value) # words * 32 THEN [panic |-> TRUE, memory |-> m]
        ELSE [panic |-> FALSE,
              memory |-> [i \in 1..Len(g) |->
                            IF i > offset /\ i <= offset + words * 32
                            THEN value[i - offset] ELSE g[i]]]

\* Memory::store8(offset, value)
Memory_store8(m, offset, value) ==
    LET g == Memory_resize(m, offset + 1)
    IN  [g EXCEPT ![offset + 1] = value]

\* Memory::size: the length rounded up to whole words
Memory_size(m) ==
    IF Len(m) = 0 THEN 0
    ELSE IF Len(m) % 32 # 0 THEN (Len(m) \div 32 + 1) * 32
    ELSE (Len(m) \div 32) * 32

----------------------------------------------------------------------------
(* World state: a function from the existing addresses to account records *)

\* AccountState { ..Default::default() }: empty code, empty storage
Account_default(balance, code) ==
    [balance |-> balance, nonce |-> 0, bytecode |-> code, storage |-> << >>]

\* AccountState::new: bytecode is Bytes::zero()
AccountState_new == Account_default(0, Bytes_zero)

State_insert(s, a, acc) ==
    [x \in (DOMAIN s) \cup {a} |-> IF x = a THEN acc ELSE s[x]]

State_delete(s, a) == [x \in (DOMAIN s) \ {a} |-> s[x]]

State_create(s, a, code, balance) == State_insert(s, a, Account_default(balance, code))

State_balance(s, a) == IF a \in DOMAIN s THEN s[a].balance ELSE 0

State_code(s, a) == IF a \in DOMAIN s THEN s[a].bytecode ELSE <<>>

State_nonce(s, a) == IF a \in DOMAIN s THEN s[a].nonce ELSE 0

Storage_load(st, k) == IF k \in DOMAIN st THEN st[k] ELSE 0

\* a faulty store that forgets the other keys
Storage_store_alone(st, k, v) == [x \in {k} |-> v]

Storage_store(st, k, v) == [x \in (DOMAIN st) \cup {k} |-> IF x = k THEN v ELSE st[x]]

Storage_delete(st, k) == [x \in (DOMAIN st) \ {k} |-> st[x]]

State_storage_load(s, a, k) == IF a \in DOMAIN s THEN Storage_load(s[a].storage, k) ELSE 0

State_storage_store(s, a, k, v) ==
    LET acc == IF a \in DOMAIN s THEN s[a] ELSE AccountState_new
    IN  State_insert(s, a, [acc EXCEPT !.storage = Storage_store(acc.storage, k, v)])

\* a faulty transfer that credits `to` without debiting `from`; the transfer
\* contract must tell it from State_transfer
State_transfer_no_debit(s, from, to, value) ==
    IF value = 0 THEN [ok |-> TRUE, state |-> s]
    ELSE IF from \notin DOMAIN s THEN [ok |-> FALSE, state |-> s]
    ELSE IF s[from].balance < value THEN [ok |-> FALSE, state |-> s]
    ELSE IF to \in DOMAIN s
         THEN [ok |-> TRUE, state |-> [s EXCEPT ![to].balance = @ + value]]
         ELSE [ok |-> TRUE, state |-> State_insert(s, to, Account_default(value, Bytes_new))]

State_transfer(s, from, to, value) ==
    IF value = 0 THEN [ok |-> TRUE, state |-> s]
    ELSE IF from \notin DOMAIN s THEN [ok |-> FALSE, state |-> s]
    ELSE IF s[from].balance < value THEN [ok |-> FALSE, state |-> s]
    ELSE LET s1 == [s EXCEPT ![from].balance = @ - value]
         IN  IF to \in DOMAIN s1
             THEN [ok |-> TRUE, state |-> [s1 EXCEPT ![to].balance = @ + value]]
             ELSE [ok |-> TRUE, state |-> State_insert(s1, to, Account_default(value, Bytes_new))]

----------------------------------------------------------------------------
(* Call records (interpreter/call.rs) and opcode decoding *)

Call_new(sender, recipient, originator, code_target, data, value, view) ==
    [sender |-> sender, recipient |-> recipient, originator |-> originator,
     code_target |-> code_target, data |-> data, value |-> value, view |-> view,
     result |-> Bytes_new]

NoReq == [kind |-> "NONE", call |-> Call_new(0, 0, 0, 0, <<>>, 0, FALSE),
          ret_offset |-> 0, ret_size |-> 0, init |-> Bytes_new]

\* the bytes impl TryFrom<u8> for Opcode maps to an opcode
DefinedBytes ==
    (0..11) \cup (16..29) \cup {32} \cup (48..72) \cup (80..91) \cup (96..164)
        \cup (240..245) \cup {250, 253, 254, 255}

\* impl TryFrom<u8> for Opcode.  The opcodes the model executes have their
\* names; "PUSHk" stands for PUSH3 .. PUSH31 and "Defined" for the other
\* opcodes of the table, which the programs of the model never execute;
\* "Err" is the decoder's error (run unwraps it: the process aborts).
Opcode_try_from(b) ==
    CASE b = 0   -> "STOP"
      [] b = 61  -> "RETURNDATASIZE"
      [] b = 80  -> "POP"
      [] b = 82  -> "MSTORE"
      [] b = 83  -> "MSTORE8"
      [] b = 84  -> "SLOAD"
      [] b = 85  -> "SSTORE"
      [] b = 86  -> "JUMP"
      [] b = 87  -> "JUMPI"
      [] b = 91  -> "JUMPDEST"
      [] b = 96  -> "PUSH1"
      [] b = 97  -> "PUSH2"
      [] b \in 98..126 -> "PUSHk"
      [] b = 127 -> "PUSH32"
      [] b = 128 -> "DUP1"
      [] b = 144 -> "SWAP1"
      [] b = 160 -> "LOG0"
      [] b = 240 -> "CREATE"
      [] b = 241 -> "CALL"
      [] b = 242 -> "CALLCODE"
      [] b = 243 -> "RETURN"
      [] b = 244 -> "DELEGATECALL"
      [] b = 250 -> "STATICCALL"
      [] b = 253 -> "REVERT"
      [] b = 254 -> "INVALID"
      [] b = 255 -> "SELFDESTRUCT"
      [] OTHER   -> IF b \in DefinedBytes THEN "Defined" ELSE "Err"

\* Opcode::PUSH1 | ... | Opcode::PUSH32, the pattern of validate_jumpdest
PushOps == {"PUSH1", "PUSH2", "PUSHk", "PUSH32"}

\* Opcode::fix_gas
fix_gas(op) ==
    CASE op = "JUMPDEST" -> 1
      [] op = "POP"     -> 2
      [] op = "MSTORE"  -> 3
      [] op = "MSTORE8" -> 3
      [] op \in PushOps -> 3
      [] op = "DUP1"    -> 3
      [] op = "SWAP1"   -> 3
      [] op = "JUMP"    -> 8
      [] op = "JUMPI"   -> 10
      [] op = "SLT"     -> 3
      [] op = "SGT"     -> 3
      [] op = "SMOD"    -> 5
      [] op = "SIGNEXTEND" -> 5
      [] op = "EXP"     -> 10
      [] op = "SHA3"    -> 30
      [] OTHER          -> 0

----------------------------------------------------------------------------
(* The opcode table.  X is the view of the executing frame and its host:   *)
(*   pc, code, stack, memory, gas, return_data  the frame                  *)
(*   address, caller, callvalue, calldata, static  the current call        *)
(*   originator, state, logs, to_delete, stopped, result  the host         *)
(*   flow   what the opcode returned: "Continue" (true), "Revert" (false), *)
(*          "Return", "Call" (suspended in execute_call), "Panic" (abort)  *)
(*   req    the call handed to execute_call when flow = "Call"             *)

Panic(x) == [x EXCEPT !.flow = "Panic"]

\* a faulty push that does not test the depth of the stack
PushThen_unchecked(x, v, pcinc) ==
    [x EXCEPT !.stack = Append(@, v), !.pc = @ + pcinc, !.flow = "Continue"]

\* Stack::push, then what follows it
PushThen(x, v, pcinc) ==
    IF Len(x.stack) = StackMaxDepth THEN Panic(x)
    ELSE [x EXCEPT !.stack = Append(@, v), !.pc = @ + pcinc, !.flow = "Continue"]

Op_STOP_ctx(x) ==
    [x EXCEPT !.gas = @ + fix_gas("STOP"), !.stopped = TRUE, !.pc = @ + 1, !.flow = "Continue"]

Op_STOP_interp(x) ==
    [x EXCEPT !.gas = @ + fix_gas("STOP"), !.pc = @ + 1, !.flow = "Continue"]

Op_POP(x) ==
    IF Len(x.stack) < 1 THEN Panic(x)
    ELSE [x EXCEPT !.gas = @ + fix_gas("POP"), !.stack = DropLast(@, 1),
                   !.pc = @ + 1, !.flow = "Continue"]

Op_MSTORE(x) ==
    IF Len(x.stack) < 2 THEN Panic(x)
    ELSE LET offset == Top(x.stack, 1)
             value  == Top(x.stack, 2)
         IN  [x EXCEPT !.stack = DropLast(@, 2),
                       !.gas = @ + fix_gas("MSTORE") * Memory_expansion(x.memory, offset, 32),
                       !.memory = Memory_store(@, offset, Bytes32_as_bytes(value)),
                       !.pc = @ + 1, !.flow = "Continue"]

Op_MSTORE8(x) ==
    IF Len(x.stack) < 2 THEN Panic(x)
    ELSE LET offset == Top(x.stack, 1)
             value  == Top(x.stack, 2)
         IN  [x EXCEPT !.stack = DropLast(@, 2),
                       !.gas = @ + fix_gas("MSTORE8") * Memory_expansion(x.memory, offset, 1),
                       !.memory = Memory_store(@, offset, <<Bytes32_low_byte(value)>>),
                       !.pc = @ + 1, !.flow = "Continue"]

\* RETURNDATASIZE: the length of ctx.return_data() / interp.return_data
Op_RETURNDATASIZE(x) ==
    PushThen([x EXCEPT !.gas = @ + fix_gas("RETURNDATASIZE")], Len(x.return_data), 1)

Op_SLOAD(x) ==
    IF Len(x.stack) < 1 THEN Panic(x)
    ELSE LET key == Top(x.stack, 1)
             x1  == [x EXCEPT !.stack = DropLast(@, 1), !.gas = @ + fix_gas("SLOAD")]
         IN  PushThen(x1, State_storage_load(x.state, x.address, key), 1)

Op_SSTORE(x) ==
    IF x.static THEN [x EXCEPT !.flow = "Revert"]
    ELSE IF Len(x.stack) < 2 THEN Panic(x)
    ELSE LET key   == Top(x.stack, 1)
             value == Top(x.stack, 2)
         IN  [x EXCEPT !.stack = DropLast(@, 2), !.gas = @ + fix_gas("SSTORE"),
                       !.state = State_storage_store(@, x.address, key, value),
                       !.pc = @ + 1, !.flow = "Continue"]

\* code[pc + 1] is read without a bounds check: past the end the index panics
Op_PUSH1(x) ==
    IF x.pc + 1 >= Len(x.code) THEN Panic(x)
    ELSE PushThen([x EXCEPT !.gas = @ + fix_gas("PUSH1")], x.code[x.pc + 2], 2)

\* the value of a big-endian byte string (Bytes32::from_slice, to_u256)
RECURSIVE BigEndian(_)
BigEndian(bytes) ==
    IF bytes = <<>> THEN 0
    ELSE 256 * BigEndian(SubSeq(bytes, 1, Len(bytes) - 1)) + bytes[Len(bytes)]

\* PUSH2 .. PUSH32: the slice code[pc+1 .. pc+1+n] panics when it passes the
\* end of the code
Op_PUSHn(x, n) ==
    IF x.pc + 1 + n > Len(x.code) THEN Panic(x)
    ELSE PushThen([x EXCEPT !.gas = @ + fix_gas("PUSHk")],
                  BigEndian(SubSeq(x.code, x.pc + 2, x.pc + 1 + n)), 1 + n)

\* DUP1: stack.depth() - 1 underflows on an empty stack
Op_DUP1(x) ==
    IF Len(x.stack) < 1 THEN Panic(x)
    ELSE PushThen([x EXCEPT !.gas = @ + fix_gas("DUP1")], Top(x.stack, 1), 1)

\* SWAP1: Stack::swap(1) panics when depth >= stack depth
Op_SWAP1(x) ==
    IF Len(x.stack) < 2 THEN Panic(x)
    ELSE LET n == Len(x.stack)
         IN  [x EXCEPT !.gas = @ + fix_gas("SWAP1"),
                       !.stack = [@ EXCEPT ![n] = x.stack[n - 1], ![n - 1] = x.stack[n]],
                       !.pc = @ + 1, !.flow = "Continue"]

\* validate_jumpdest: "true" | "false", or "panic" when an index is out of
\* the code, a byte does not decode (unwrap), or pc_new - 1 underflows
validate_jumpdest(code, pc_new) ==
    IF pc_new >= Len(code) THEN "panic"
    ELSE IF Opcode_try_from(code[pc_new + 1]) = "Err" THEN "panic"
    ELSE IF Opcode_try_from(code[pc_new + 1]) # "JUMPDEST" THEN "false"
    ELSE IF pc_new = 0 THEN "panic"
    ELSE IF Opcode_try_from(code[pc_new]) = "Err" THEN "panic"
    ELSE IF Opcode_try_from(code[pc_new]) \in PushOps THEN "false"
    ELSE "true"

Op_JUMP(x) ==
    IF Len(x.stack) < 1 THEN Panic(x)
    ELSE LET jumpdest == Top(x.stack, 1)
             x1 == [x EXCEPT !.stack = DropLast(@, 1), !.gas = @ + fix_gas("JUMP")]
             v  == validate_jumpdest(x.code, jumpdest)
         IN  CASE v = "panic" -> Panic(x)
               [] v = "true"  -> [x1 EXCEPT !.pc = jumpdest, !.flow = "Continue"]
               [] OTHER       -> [x1 EXCEPT !.flow = "Revert"]

Op_JUMPI(x) ==
    IF Len(x.stack) < 2 THEN Panic(x)
    ELSE LET jumpdest  == Top(x.stack, 1)
             condition == Top(x.stack, 2)
             x1 == [x EXCEPT !.stack = DropLast(@, 2), !.gas = @ + fix_gas("JUMPI")]
             v  == validate_jumpdest(x.code, jumpdest)
         IN  IF condition = 0 THEN [x1 EXCEPT !.pc = @ + 1, !.flow = "Continue"]
             ELSE CASE v = "panic" -> Panic(x)
                    [] v = "true"  -> [x1 EXCEPT !.pc = jumpdest, !.flow = "Continue"]
                    [] OTHER       -> [x1 EXCEPT !.flow = "Revert"]

Op_JUMPDEST(x) ==
    [x EXCEPT !.gas = @ + fix_gas("JUMPDEST"), !.pc = @ + 1, !.flow = "Continue"]

\* Log::new(address, data), no topic
Log_new(address, data) == [address |-> address, data |-> data, topics |-> <<>>]

\* LOG0: the log goes to the host's log list (add_log / host.log)
Op_LOG0(x) ==
    IF Len(x.stack) < 2 THEN Panic(x)
    ELSE LET offset == Top(x.stack, 1)
             size   == Top(x.stack, 2)
             ld == Memory_load(x.memory, offset, size)
         IN  [x EXCEPT !.stack = DropLast(@, 2), !.gas = @ + fix_gas("LOG0"),
                       !.memory = ld.memory,
                       !.logs = Append(@, Log_new(x.address, ld.data)),
                       !.pc = @ + 1, !.flow = "Continue"]

\* SELFDESTRUCT: the address is popped before the static check; the whole
\* balance goes to it and the executing account is queued for deletion
\* (ctx.selfdestruct; host.selfdestruct is taken to do the same)
Op_SELFDESTRUCT(x) ==
    IF Len(x.stack) < 1 THEN Panic(x)
    ELSE LET address == Top(x.stack, 1)
             x1 == [x EXCEPT !.stack = DropLast(@, 1)]
             t  == State_transfer(x.state, x.address, address,
                                  State_balance(x.state, x.address))
         IN  IF x.static THEN [x1 EXCEPT !.flow = "Revert"]
             ELSE IF t.ok
             THEN [x1 EXCEPT !.gas = @ + fix_gas("SELFDESTRUCT"), !.state = t.state,
                             !.to_delete = Append(@, x.address),
                             !.pc = @ + 1, !.flow = "Continue"]
             ELSE [x1 EXCEPT !.gas = @ + fix_gas("SELFDESTRUCT"), !.flow = "Revert"]

\* opcode.rs: the value goes to ctx.call.result and the opcode returns true
Op_RETURN_ctx(x) ==
    IF Len(x.stack) < 2 THEN Panic(x)
    ELSE LET offset == Top(x.stack, 1)
             size   == Top(x.stack, 2)
             ld     == Memory_load(x.memory, offset, size)
         IN  [x EXCEPT !.stack = DropLast(@, 2),
                       !.gas = @ + fix_gas("RETURN") * Memory_expansion(x.memory, offset, size),
                       !.memory = ld.memory, !.result = ld.data,
                       !.pc = @ + 1, !.flow = "Continue"]

\* interpreter/opcodes: the value goes to interp.return_data, ControlFlow::Return
Op_RETURN_interp(x) ==
    IF Len(x.stack) < 2 THEN Panic(x)
    ELSE LET offset == Top(x.stack, 1)
             size   == Top(x.stack, 2)
             ld     == Memory_load(x.memory, offset, size)
         IN  [x EXCEPT !.stack = DropLast(@, 2),
                       !.gas = @ + fix_gas("RETURN") * Memory_expansion(x.memory, offset, size),
                       !.memory = ld.memory, !.return_data = ld.data,
                       !.pc = @ + 1, !.flow = "Return"]

Op_REVERT_ctx(x) ==
    IF Len(x.stack) < 2 THEN Panic(x)
    ELSE LET offset == Top(x.stack, 1)
             size   == Top(x.stack, 2)
             ld     == Memory_load(x.memory, offset, size)
         IN  [x EXCEPT !.stack = DropLast(@, 2),
                       !.gas = @ + fix_gas("REVERT") * Memory_expansion(x.memory, offset, size),
                       !.memory = ld.memory, !.result = ld.data,
                       !.pc = @ + 1, !.flow = "Revert"]

Op_REVERT_interp(x) ==
    IF Len(x.stack) < 2 THEN Panic(x)
    ELSE LET offset == Top(x.stack, 1)
             size   == Top(x.stack, 2)
             ld     == Memory_load(x.memory, offset, size)
         IN  [x EXCEPT !.stack = DropLast(@, 2),
                       !.gas = @ + fix_gas("REVERT") * Memory_expansion(x.memory, offset, size),
                       !.memory = ld.memory, !.return_data = ld.data,
                       !.pc = @ + 1, !.flow = "Revert"]

Op_INVALID(x) == [x EXCEPT !.pc = @ + 1, !.flow = "Revert"]

\* the address CREATE derives: Keccak256 over the RLP of the creator and of
\* its nonce, taken as an injective function into addresses that no
\* scenario account has
create_address(sender, nonce) == 16 * (sender + 1) + nonce

\* CREATE up to create_call: the pops, the two revert conditions, the init
\* code read from memory, the derived address; the Call is the one
\* create_call builds for the init code
Op_CREATE(x) ==
    IF Len(x.stack) < 3 THEN Panic(x)
    ELSE LET value  == Top(x.stack, 1)
             offset == Top(x.stack, 2)
             size   == Top(x.stack, 3)
             x1 == [x EXCEPT !.stack = DropLast(@, 3)]
             ld == Memory_load(x.memory, offset, size)
             address == create_address(x.address, State_nonce(x.state, x.address))
         IN  IF x.static /\ value # 0 THEN [x1 EXCEPT !.flow = "Revert"]
             ELSE IF ~x.static /\ State_balance(x.state, x.originator) < value
                  THEN [x1 EXCEPT !.flow = "Revert"]
             ELSE [x1 EXCEPT !.gas = @ + fix_gas("CREATE"), !.memory = ld.memory,
                             !.flow = "Call",
                             !.req = [kind |-> "CREATE",
                                      call |-> Call_new(x.address, address, x.originator,
                                                        address, Bytes_zero, value, FALSE),
                                      ret_offset |-> 0, ret_size |-> 0,
                                      init |-> ld.data]]

\* the checks and the Call of CALL: sender = current contract, recipient =
\* code_target = address, view = false
Op_CALL(x) ==
    IF Len(x.stack) < 7 THEN Panic(x)
    ELSE LET address     == Top(x.stack, 2)
             value       == Top(x.stack, 3)
             args_offset == Top(x.stack, 4)
             args_size   == Top(x.stack, 5)
             ret_offset  == Top(x.stack, 6)
             ret_size    == Top(x.stack, 7)
             x1 == [x EXCEPT !.stack = DropLast(@, 7)]
             ld == Memory_load(x.memory, args_offset, args_size)
         IN  IF x.static /\ value # 0 THEN [x1 EXCEPT !.flow = "Revert"]
             ELSE IF ~x.static /\ State_balance(x.state, x.originator) < value
                  THEN [x1 EXCEPT !.flow = "Revert"]
             ELSE [x1 EXCEPT !.gas = @ + fix_gas("CALL"), !.memory = ld.memory,
                             !.flow = "Call",
                             !.req = [kind |-> "CALL",
                                      call |-> Call_new(x.address, address, x.originator,
                                                        address, ld.data, value, FALSE),
                                      ret_offset |-> ret_offset, ret_size |-> ret_size,
                                init |-> Bytes_new]]

Op_CALLCODE(x) ==
    IF Len(x.stack) < 7 THEN Panic(x)
    ELSE LET address     == Top(x.stack, 2)
             value       == Top(x.stack, 3)
             args_offset == Top(x.stack, 4)
             args_size   == Top(x.stack, 5)
             ret_offset  == Top(x.stack, 6)
             ret_size    == Top(x.stack, 7)
             ld == Memory_load(x.memory, args_offset, args_size)
         IN  [x EXCEPT !.stack = DropLast(@, 7), !.gas = @ + fix_gas("CALLCODE"),
                       !.memory = ld.memory, !.flow = "Call",
                       !.req = [kind |-> "CALLCODE",
                                call |-> Call_new(x.address, address, x.originator,
                                                  address, ld.data, value, FALSE),
                                ret_offset |-> ret_offset, ret_size |-> ret_size,
                                init |-> Bytes_new]]

Op_DELEGATECALL(x) ==
    IF Len(x.stack) < 6 THEN Panic(x)
    ELSE LET address     == Top(x.stack, 2)
             args_offset == Top(x.stack, 3)
             args_size   == Top(x.stack, 4)
             ret_offset  == Top(x.stack, 5)
             ret_size    == Top(x.stack, 6)
             ld == Memory_load(x.memory, args_offset, args_size)
         IN  [x EXCEPT !.stack = DropLast(@, 6), !.gas = @ + fix_gas("DELEGATECALL"),
                       !.memory = ld.memory, !.flow = "Call",
                       !.req = [kind |-> "DELEGATECALL",
                                call |-> Call_new(x.address, x.address, x.originator,
                                                  address, ld.data, 0, FALSE),
                                ret_offset |-> ret_offset, ret_size |-> ret_size,
                                init |-> Bytes_new]]

\* a faulty STATICCALL that builds a call that is not static
Op_STATICCALL_not_view(x) ==
    IF Len(x.stack) < 6 THEN Panic(x)
    ELSE LET address     == Top(x.stack, 2)
             args_offset == Top(x.stack, 3)
             args_size   == Top(x.stack, 4)
             ret_offset  == Top(x.stack, 5)
             ret_size    == Top(x.stack, 6)
             ld == Memory_load(x.memory, args_offset, args_size)
         IN  [x EXCEPT !.stack = DropLast(@, 6), !.gas = @ + fix_gas("STATICCALL"),
                       !.memory = ld.memory, !.flow = "Call",
                       !.req = [kind |-> "STATICCALL",
                                call |-> Call_new(x.address, address, x.originator,
                                                  address, ld.data, 0, FALSE),
                                ret_offset |-> ret_offset, ret_size |-> ret_size,
                                init |-> Bytes_new]]

Op_STATICCALL(x) ==
    IF Len(x.stack) < 6 THEN Panic(x)
    ELSE LET address     == Top(x.stack, 2)
             args_offset == Top(x.stack, 3)
             args_size   == Top(x.stack, 4)
             ret_offset  == Top(x.stack, 5)
             ret_size    == Top(x.stack, 6)
             ld == Memory_load(x.memory, args_offset, args_size)
         IN  [x EXCEPT !.stack = DropLast(@, 6), !.gas = @ + fix_gas("STATICCALL"),
                       !.memory = ld.memory, !.flow = "Call",
                       !.req = [kind |-> "STATICCALL",
                                call |-> Call_new(x.address, address, x.originator,
                                                  address, ld.data, 0, TRUE),
                                ret_offset |-> ret_offset, ret_size |-> ret_size,
                                init |-> Bytes_new]]

\* what a call opcode does once execute_call has returned cr: copy the
\* return area (CALL and CALLCODE always, DELEGATECALL and STATICCALL on
\* success only), push the flag, advance pc.  result[0..ret_size] panics
\* when the result is shorter than ret_size.
Op_call_tail(x, kind, cr, ret_offset, ret_size) ==
    IF kind \in {"CALL", "CALLCODE"} \/ cr.success # 0
    THEN IF ret_size > Len(cr.result) THEN Panic(x)
         ELSE PushThen([x EXCEPT !.memory =
                            Memory_store(@, ret_offset, SubSeq(cr.result, 1, ret_size))],
                       cr.success, 1)
    ELSE PushThen(x, cr.success, 1)

\* what CREATE does once create_call has returned cr: push the address or
\* zero, advance pc
Op_create_tail(x, cr, address) ==
    PushThen(x, IF cr.success # 0 THEN address ELSE 0, 1)

\* Opcode::execute, up to the point where a call opcode enters execute_call
Opcode_execute(eng, op, x) ==
    CASE op = "STOP"         -> IF eng = "ctx" THEN Op_STOP_ctx(x) ELSE Op_STOP_interp(x)
      [] op = "RETURNDATASIZE" -> Op_RETURNDATASIZE(x)
      [] op = "POP"          -> Op_POP(x)
      [] op = "MSTORE"       -> Op_MSTORE(x)
      [] op = "MSTORE8"      -> Op_MSTORE8(x)
      [] op = "SLOAD"        -> Op_SLOAD(x)
      [] op = "SSTORE"       -> Op_SSTORE(x)
      [] op = "PUSH1"        -> Op_PUSH1(x)
      [] op = "PUSH2"        -> Op_PUSHn(x, 2)
      [] op = "PUSH32"       -> Op_PUSHn(x, 32)
      [] op = "DUP1"         -> Op_DUP1(x)
      [] op = "SWAP1"        -> Op_SWAP1(x)
      [] op = "JUMP"         -> Op_JUMP(x)
      [] op = "JUMPI"        -> Op_JUMPI(x)
      [] op = "JUMPDEST"     -> Op_JUMPDEST(x)
      [] op = "LOG0"         -> Op_LOG0(x)
      [] op = "SELFDESTRUCT" -> Op_SELFDESTRUCT(x)
      [] op = "CREATE"       -> Op_CREATE(x)
      [] op = "CALL"         -> Op_CALL(x)
      [] op = "CALLCODE"     -> Op_CALLCODE(x)
      [] op = "RETURN"       -> IF eng = "ctx" THEN Op_RETURN_ctx(x) ELSE Op_RETURN_interp(x)
      [] op = "DELEGATECALL" -> Op_DELEGATECALL(x)
      [] op = "STATICCALL"   -> Op_STATICCALL(x)
      [] op = "REVERT"       -> IF eng = "ctx" THEN Op_REVERT_ctx(x) ELSE Op_REVERT_interp(x)
      [] op = "INVALID"      -> Op_INVALID(x)
      [] OTHER               -> Panic(x)

----------------------------------------------------------------------------
(* Frames: ExecutionContext (lib.rs) and Interpreter (interpreter/mod.rs)  *)

\* history kept with each frame: the first STOP / RETURN / REVERT / INVALID
\* it executed, the memory slice that opcode named, the stack, memory and
\* state right after it, and whether an opcode was executed after it; the
\* logs the frame emitted and the accounts it queued for deletion
NoTerm == [term |-> "NONE", data |-> <<>>, after |-> FALSE,
           stack |-> <<>>, memory |-> <<>>, state |-> << >>,
           logs |-> <<>>, queued |-> {}]

\* memory[offset .. offset+size), bytes past the end read as zero
MemSlice(m, offset, size) ==
    [i \in 1..size |-> IF offset + i <= Len(m) THEN m[offset + i] ELSE 0]

TermStep(g, op, x0, x1) ==
    LET g1 == [g EXCEPT
                 !.logs = IF op = "LOG0" /\ x1.flow = "Continue"
                          THEN Append(@, x1.logs[Len(x1.logs)]) ELSE @,
                 !.queued = IF op = "SELFDESTRUCT" /\ x1.flow = "Continue"
                            THEN @ \cup {x0.address} ELSE @]
    IN  IF g.term # "NONE" THEN [g1 EXCEPT !.after = TRUE]
        ELSE IF op \in {"STOP", "RETURN", "REVERT", "INVALID"} /\ x1.flow # "Panic"
        THEN [g1 EXCEPT !.term = op,
                        !.data = IF op \in {"RETURN", "REVERT"}
                                 THEN MemSlice(x0.memory, Top(x0.stack, 1), Top(x0.stack, 2))
                                 ELSE <<>>,
                        !.after = FALSE, !.stack = x1.stack, !.memory = x1.memory,
                        !.state = x1.state]
        ELSE g1

\* ExecutionContext::new; success is the local of run, true when run starts
ExecutionContext_new(call, state, code) ==
    [target |-> call.recipient, code |-> code, pc |-> 0, stack |-> <<>>,
     state |-> state, memory |-> <<>>, gas |-> 0, return_data |-> Bytes_new,
     logs |-> <<>>, stopped |-> FALSE, to_delete |-> <<>>, call |-> call,
     success |-> TRUE, g |-> NoTerm]

\* ExecutionContext::sub_ctx: a clone of the whole context, stack and memory included
sub_ctx(h, code, call) ==
    [h EXCEPT !.target = call.recipient, !.code = code, !.call = call, !.pc = 0,
              !.success = TRUE, !.g = NoTerm]

\* Interpreter::new(0, Contract::new_call(call, code), 0, call.view)
Interpreter_new(call, code) ==
    [contract |-> [address |-> call.recipient, code |-> code, caller |-> call.sender,
                   calldata |-> call.data, value |-> call.value],
     pc |-> 0, stack |-> <<>>, memory |-> <<>>, gas |-> 0, is_static |-> call.view,
     control_flow |-> "Continue", return_data |-> Bytes_new, logs |-> <<>>,
     g |-> NoTerm]

NoInterp == Interpreter_new(Call_new(0, 0, 0, 0, <<>>, 0, FALSE), <<>>)

\* gas is a usize that the opcodes only add to and that no run loop reads;
\* the counter is kept exactly up to MaxGas and stays there beyond it
GasCap(gas) == IF gas > MaxGas THEN MaxGas ELSE gas

\* the view an opcode of opcode.rs has of its ExecutionContext
CtxView(f) ==
    [pc |-> f.pc, code |-> f.code, stack |-> f.stack, memory |-> f.memory, gas |-> f.gas,
     return_data |-> f.return_data, address |-> f.target, caller |-> f.call.sender,
     callvalue |-> f.call.value, calldata |-> f.call.data, static |-> f.call.view,
     originator |-> f.call.originator, state |-> f.state, logs |-> f.logs,
     to_delete |-> f.to_delete, stopped |-> f.stopped, result |-> f.call.result,
     flow |-> "Continue", req |-> NoReq]

CtxApply(f, x) ==
    [f EXCEPT !.pc = x.pc, !.stack = x.stack, !.memory = x.memory,
              !.gas = GasCap(x.gas),
              !.return_data = x.return_data, !.state = x.state, !.logs = x.logs,
              !.to_delete = x.to_delete, !.stopped = x.stopped, !.call.result = x.result]

\* the view an opcode of interpreter/opcodes has of (interp, host)
InterpView(i, h) ==
    [pc |-> i.pc, code |-> i.contract.code, stack |-> i.stack, memory |-> i.memory,
     gas |-> i.gas, return_data |-> i.return_data, address |-> i.contract.address,
     caller |-> i.contract.caller, callvalue |-> i.contract.value,
     calldata |-> i.contract.calldata, static |-> i.is_static,
     originator |-> h.call.originator, state |-> h.state, logs |-> h.logs,
     to_delete |-> h.to_delete, stopped |-> FALSE, result |-> Bytes_new,
     flow |-> "Continue", req |-> NoReq]

InterpApply(i, x) ==
    [i EXCEPT !.pc = x.pc, !.stack = x.stack, !.memory = x.memory,
              !.gas = GasCap(x.gas), !.return_data = x.return_data]

HostApply(h, x) ==
    [h EXCEPT !.state = x.state, !.logs = x.logs, !.to_delete = x.to_delete]

ViewOf(eng, i, h) == IF eng = "interp" THEN InterpView(i, h) ELSE CtxView(h)

----------------------------------------------------------------------------
(* ExecutionContext::run, ExecutionContext::execute_call, Interpreter::run *)

Range(q) == {q[k] : k \in DOMAIN q}

\* the loop condition of ExecutionContext::run
Ctx_running(f) == f.success /\ ~f.stopped /\ f.pc < Len(f.code)

\* the end of ExecutionContext::run: queued deletions on success, the result
Ctx_run_end(f) ==
    LET st == IF f.success
              THEN [a \in (DOMAIN f.state) \ Range(f.to_delete) |-> f.state[a]]
              ELSE f.state
    IN  [ctx |-> [f EXCEPT !.state = st],
         res |-> [stack |-> Reverse(f.stack), logs |-> f.logs,
                  success |-> f.success, result |-> f.call.result]]

\* the loop condition of Interpreter::run
Interp_running(i) == i.pc < Len(i.contract.code) /\ i.control_flow = "Continue"

\* the exits of Interpreter::run: the pc test comes first
Interp_run_end(i) ==
    IF i.pc >= Len(i.contract.code) \/ i.control_flow = "Stop"
    THEN [stack |-> Reverse(i.stack), logs |-> i.logs, success |-> TRUE,
          result |-> Bytes_zero]
    ELSE IF i.control_flow = "Revert"
    THEN [stack |-> Reverse(i.stack), logs |-> i.logs, success |-> FALSE,
          result |-> i.return_data]
    ELSE [stack |-> Reverse(i.stack), logs |-> i.logs, success |-> TRUE,
          result |-> i.return_data]

\* execute_call up to sub_ctx.run(): the transfer is made on the caller's own
\* state, from call.originator, before the state is cloned into the child
ExecuteCall_begin(h, call) ==
    LET t == State_transfer(h.state, call.originator, call.recipient, call.value)
        h1 == [h EXCEPT !.state = t.state]
        code == State_code(h1.state, call.code_target)
    IN  IF ~t.ok
        THEN [tag |-> "done", host |-> h, cr |-> [success |-> 0, result |-> Bytes_new]]
        ELSE IF code = <<>>
        THEN [tag |-> "done", host |-> h1, cr |-> [success |-> 1, result |-> Bytes_new]]
        ELSE [tag |-> "child", host |-> h1, child |-> sub_ctx(h1, code, call)]

\* a faulty execute_call that keeps the caller's state after a successful child
ExecuteCall_end_keep_state(h, call, sub, res) ==
    IF res.success
    THEN [host |-> [h EXCEPT !.stack = sub.stack, !.memory = sub.memory,
                             !.return_data = res.result],
          cr |-> [success |-> 1, result |-> res.result]]
    ELSE [host |-> h, cr |-> [success |-> 0, result |-> res.result]]

\* execute_call after sub_ctx.run() returned res
ExecuteCall_end(h, call, sub, res) ==
    IF res.success
    THEN [host |-> [h EXCEPT !.stack = sub.stack, !.memory = sub.memory,
                             !.state = IF ~call.view THEN sub.state ELSE @,
                             !.return_data = res.result],
          cr |-> [success |-> 1, result |-> res.result]]
    ELSE [host |-> h, cr |-> [success |-> 0, result |-> res.result]]

\* create_call up to sub_ctx.run(): the transfer goes from the originator of
\* the current call to the recipient of the current call; empty init code
\* installs an account holding Bytes::zero() at once
CreateCall_begin(h, req) ==
    LET t == State_transfer(h.state, h.call.originator, h.call.recipient, req.call.value)
        h1 == [h EXCEPT !.state = t.state]
    IN  IF ~t.ok
        THEN [tag |-> "done", host |-> h, cr |-> [success |-> 0, result |-> Bytes_new]]
        ELSE IF req.init = <<>>
        THEN [tag |-> "done",
              host |-> [h1 EXCEPT !.state = State_create(@, req.call.recipient, Bytes_zero,
                                                         req.call.value)],
              cr |-> [success |-> 1, result |-> Bytes_new]]
        ELSE [tag |-> "child", host |-> h1, child |-> sub_ctx(h1, req.init, req.call)]

\* create_call after sub_ctx.run() returned res
CreateCall_end(h, call, sub, res) ==
    IF res.success
    THEN [host |-> [h EXCEPT !.stack = sub.stack, !.memory = sub.memory,
                             !.state = State_create(IF ~call.view THEN sub.state ELSE @,
                                                    call.recipient, res.result, call.value),
                             !.return_data = res.result],
          cr |-> [success |-> 1, result |-> res.result]]
    ELSE [host |-> h, cr |-> [success |-> 0, result |-> res.result]]

----------------------------------------------------------------------------
(* History records *)

NoLastCall ==
    [valid |-> FALSE, pushed |-> <<>>, kind |-> "NONE", ran |-> FALSE, flag |-> 0, view |-> FALSE,
     value |-> 0, executor |-> 0, sender |-> 0, recipient |-> 0, originator |-> 0,
     preState |-> << >>, preStack |-> <<>>, preMemory |-> <<>>,
     postState |-> << >>, postStack |-> <<>>, postMemory |-> <<>>,
     initStack |-> <<>>, initMemory |-> <<>>, finalState |-> << >>,
     childSuccess |-> FALSE, ret_offset |-> 0, ret_size |-> 0, result |-> <<>>,
     parentStatic |-> FALSE, parentCaller |-> 0, parentValue |-> 0, code_target |-> 0,
     preReturnData |-> <<>>, postReturnData |-> <<>>, preLogs |-> <<>>,
     postLogs |-> <<>>, depth |-> 0]

NoLastFinal ==
    [valid |-> FALSE, eng |-> "ctx", depth |-> 0, success |-> FALSE, result |-> <<>>,
     pc |-> 0, codelen |-> 0, g |-> NoTerm, stack |-> <<>>, memory |-> <<>>,
     state |-> << >>, logs |-> <<>>]

\* the record of an executed opcode: x0 the frame before it, x1 after it
\* (for a call opcode that entered execute_call, state1 is the caller's
\* state once execute_call has made its transfer)
NoLastStep ==
    [valid |-> FALSE, op |-> "NONE", flow |-> "Continue", code |-> <<>>, static |-> FALSE,
     address |-> 0, pc0 |-> 0, stack0 |-> <<>>, state0 |-> << >>, to_delete0 |-> <<>>,
     pc1 |-> 0, stack1 |-> <<>>, state1 |-> << >>, to_delete1 |-> <<>>,
     originator |-> 0, logs0 |-> <<>>, logs1 |-> <<>>, belowStatic |-> FALSE,
     depth |-> 0]

StepRecord(op, x0, x1) ==
    [valid |-> TRUE, op |-> op, flow |-> x1.flow, code |-> x0.code, static |-> x0.static,
     address |-> x0.address,
     pc0 |-> x0.pc, stack0 |-> x0.stack, state0 |-> x0.state, to_delete0 |-> x0.to_delete,
     pc1 |-> x1.pc, stack1 |-> x1.stack, state1 |-> x1.state, to_delete1 |-> x1.to_delete,
     originator |-> x0.originator, logs0 |-> x0.logs, logs1 |-> x1.logs,
     belowStatic |-> FALSE, depth |-> 0]

NoLastTransfer ==
    [valid |-> FALSE, from |-> 0, to |-> 0, value |-> 0, pre |-> << >>, post |-> << >>,
     ok |-> FALSE]

TransferRecord(s, call) ==
    LET t == State_transfer(s, call.originator, call.recipient, call.value)
    IN  [valid |-> TRUE, from |-> call.originator, to |-> call.recipient,
         value |-> call.value, pre |-> s, post |-> t.state, ok |-> t.ok]

\* the record of a completed sub-call; x0 is the caller before the opcode,
\* xr the caller when execute_call returned, x2 the caller after the opcode
CallRecord(req, x0, x2, ran, initStack, initMemory, childSuccess, finalState, cr, xr) ==
    [valid |-> TRUE, pushed |-> SubSeq(x2.stack, Len(xr.stack) + 1, Len(x2.stack)), kind |-> req.kind, ran |-> ran, flag |-> cr.success,
     view |-> req.call.view, value |-> req.call.value, executor |-> x0.address,
     sender |-> req.call.sender, recipient |-> req.call.recipient,
     originator |-> req.call.originator,
     preState |-> x0.state, preStack |-> x0.stack, preMemory |-> x0.memory,
     postState |-> x2.state, postStack |-> x2.stack, postMemory |-> x2.memory,
     initStack |-> initStack, initMemory |-> initMemory, finalState |-> finalState,
     childSuccess |-> childSuccess, ret_offset |-> req.ret_offset,
     ret_size |-> req.ret_size, result |-> cr.result,
     parentStatic |-> x0.static, parentCaller |-> x0.caller,
     parentValue |-> x0.callvalue, code_target |-> req.call.code_target,
     preReturnData |-> x0.return_data, postReturnData |-> x2.return_data,
     preLogs |-> x0.logs, postLogs |-> x2.logs, depth |-> 0]

NoLastCreate ==
    [valid |-> FALSE, ran |-> FALSE, flag |-> 0, childSuccess |-> FALSE, address |-> 0,
     value |-> 0, init |-> <<>>, result |-> <<>>, executor |-> 0,
     preState |-> << >>, postState |-> << >>, preStack |-> <<>>, postStack |-> <<>>,
     earlier |-> {}, depth |-> 0]

\* the record of a completed CREATE; x0 is the creator before the opcode, x2
\* after it, cr what create_call returned
CreateRecord(req, x0, x2, ran, childSuccess, cr) ==
    [valid |-> TRUE, ran |-> ran, flag |-> cr.success, childSuccess |-> childSuccess,
     address |-> req.call.recipient, value |-> req.call.value, init |-> req.init,
     result |-> cr.result, executor |-> x0.address,
     preState |-> x0.state, postState |-> x2.state,
     preStack |-> x0.stack, postStack |-> x2.stack, earlier |-> {}, depth |-> 0]

----------------------------------------------------------------------------
(* One iteration of a run loop on the frame (i, h); eng is the engine of   *)
(* that frame.  For eng = "ctx" the frame is h alone and i is unused.      *)

\* the call opcode's tail after execute_call / create_call came back without
\* having run a child: xr is the caller when it came back, x2 after the tail
Step_returned(eng, i1, x0, x1, ls, b, lt, isCreate, xr, x2) ==
    IF x2.flow = "Panic" THEN [tag |-> "panic", ls |-> ls]
    ELSE [tag |-> "cont", ls |-> [ls EXCEPT !.state1 = b.host.state],
          i |-> IF eng = "interp" THEN InterpApply(i1, x2) ELSE i1,
          h |-> IF eng = "interp" THEN HostApply(b.host, x2)
                ELSE CtxApply(b.host, x2),
          called |-> ~isCreate, created |-> isCreate, lt |-> lt,
          lc |-> CallRecord(x1.req, x0, x2, FALSE, <<>>, <<>>,
                            FALSE, b.host.state, b.cr, xr),
          lcr |-> CreateRecord(x1.req, x0, x2, FALSE, FALSE, b.cr)]

\* the call opcode entered execute_call / create_call, which got as far as b:
\* a child to run, or a result at once
Step_called(eng, i1, x0, x1, ls, b, lt, isCreate) ==
    IF b.tag = "child"
    THEN [tag |-> "child", ls |-> [ls EXCEPT !.state1 = b.host.state],
          i |-> i1, h |-> b.host, child |-> b.child, lt |-> lt,
          info |-> [req |-> x1.req, x0 |-> x0,
                    initStack |-> b.child.stack,
                    initMemory |-> b.child.memory]]
    ELSE Step_returned(eng, i1, x0, x1, ls, b, lt, isCreate, ViewOf(eng, i1, b.host),
                       IF isCreate
                       THEN Op_create_tail(ViewOf(eng, i1, b.host), b.cr,
                                           x1.req.call.recipient)
                       ELSE Op_call_tail(ViewOf(eng, i1, b.host), x1.req.kind, b.cr,
                                         x1.req.ret_offset, x1.req.ret_size))

\* the opcode left x1, written back to the frame as (i1, h1); ls records it
Step_applied(eng, x0, x1, i1, h1, ls) ==
    IF x1.flow = "Panic" THEN [tag |-> "panic", ls |-> ls]
    ELSE IF x1.flow # "Call"
    THEN [tag |-> "cont", ls |-> ls,
          i |-> IF eng = "interp" THEN [i1 EXCEPT !.control_flow = x1.flow] ELSE i1,
          h |-> IF eng = "interp" THEN h1
                ELSE [h1 EXCEPT !.success = (x1.flow # "Revert")],
          called |-> FALSE, created |-> FALSE]
    ELSE Step_called(eng, i1, x0, x1, ls,
                     IF x1.req.kind = "CREATE" THEN CreateCall_begin(h1, x1.req)
                     ELSE ExecuteCall_begin(h1, x1.req.call),
                     IF x1.req.kind = "CREATE"
                     THEN TransferRecord(h1.state,
                              [x1.req.call EXCEPT !.originator = h1.call.originator,
                                                  !.recipient = h1.call.recipient])
                     ELSE TransferRecord(h1.state, x1.req.call),
                     x1.req.kind = "CREATE")

\* the opcode op ran on the view x0 and left x1
Step_executed(eng, i, h, x0, op, x1) ==
    LET g1 == TermStep(IF eng = "interp" THEN i.g ELSE h.g, op, x0, x1)
    IN  Step_applied(eng, x0, x1,
                     IF eng = "interp" THEN [InterpApply(i, x1) EXCEPT !.g = g1] ELSE i,
                     IF eng = "interp" THEN HostApply(h, x1)
                     ELSE [CtxApply(h, x1) EXCEPT !.g = g1],
                     StepRecord(op, x0, x1))

\* the byte at pc is decoded (try_into().unwrap()) and the opcode executed
Step_fetched(eng, i, h, x0) ==
    LET op == Opcode_try_from(x0.code[x0.pc + 1])
    IN  Step_executed(eng, i, h, x0, op, Opcode_execute(eng, op, x0))

StepOutcome(eng, i, h) == Step_fetched(eng, i, h, ViewOf(eng, i, h))

\* the call opcode's tail after the child: e is what execute_call /
\* create_call made of the child's result, x2 the caller after the tail
Return_resumed(eng, i, info, r, lf, e, isCreate, x2) ==
    IF x2.flow = "Panic" THEN [tag |-> "panic", lf |-> lf]
    ELSE [tag |-> "cont",
          i |-> IF eng = "interp" THEN InterpApply(i, x2) ELSE i,
          h |-> IF eng = "interp" THEN HostApply(e.host, x2) ELSE CtxApply(e.host, x2),
          lf |-> lf, created |-> isCreate,
          lc |-> CallRecord(info.req, info.x0, x2, TRUE, info.initStack,
                            info.initMemory, r.res.success, r.ctx.state, e.cr,
                            ViewOf(eng, i, e.host)),
          lcr |-> CreateRecord(info.req, info.x0, x2, TRUE, r.res.success, e.cr)]

\* the child's run ended with r; e is the rest of execute_call / create_call
Return_ended(eng, i, sub, info, depth, r, e, isCreate) ==
    Return_resumed(eng, i, info, r,
                   [valid |-> TRUE, eng |-> "ctx", depth |-> depth,
                    success |-> r.res.success, result |-> r.res.result, pc |-> sub.pc,
                    codelen |-> Len(sub.code), g |-> sub.g, stack |-> sub.stack,
                    memory |-> sub.memory, state |-> r.ctx.state, logs |-> r.res.logs],
                   e, isCreate,
                   IF isCreate
                   THEN Op_create_tail(ViewOf(eng, i, e.host), e.cr, info.req.call.recipient)
                   ELSE Op_call_tail(ViewOf(eng, i, e.host), info.req.kind, e.cr,
                                     info.req.ret_offset, info.req.ret_size))

\* the end of the child's run
Return_run_end(eng, i, h, sub, info, depth, r) ==
    Return_ended(eng, i, sub, info, depth, r,
                 IF info.req.kind = "CREATE"
                 THEN CreateCall_end(h, info.req.call, r.ctx, r.res)
                 ELSE ExecuteCall_end(h, info.req.call, r.ctx, r.res),
                 info.req.kind = "CREATE")

\* the child sub has left its run loop: the end of its run, the rest of
\* execute_call in the host h, the rest of the call opcode in the caller
ReturnOutcome(eng, i, h, sub, info, depth) ==
    Return_run_end(eng, i, h, sub, info, depth, Ctx_run_end(sub))

----------------------------------------------------------------------------
(* Programs and initial world states of the scenarios *)

P1(v) == <<96, v>>

\* a call opcode with its seven arguments (gas is pushed as 0)
Call7(opbyte, addr, value, ao, asz, ro, rsz) ==
    P1(rsz) \o P1(ro) \o P1(asz) \o P1(ao) \o P1(value) \o P1(addr) \o P1(0) \o <<opbyte>>

\* a call opcode with its six arguments
Call6(opbyte, addr, ao, asz, ro, rsz) ==
    P1(rsz) \o P1(ro) \o P1(asz) \o P1(ao) \o P1(addr) \o P1(0) \o <<opbyte>>

SStore(k, v) == P1(v) \o P1(k) \o <<85>>

MStore8(off, v) == P1(v) \o P1(off) \o <<83>>

Ret(off, size) == P1(size) \o P1(off) \o <<243>>

Rev(off, size) == P1(size) \o P1(off) \o <<253>>

Log0(off, size) == P1(size) \o P1(off) \o <<160>>

\* CREATE with its three arguments
CreateP(value, off, size) == P1(size) \o P1(off) \o P1(value) \o <<240>>

\* code of the callee B
CalleeCodes ==
    { SStore(2, 9) \o <<0>>,                              \* store, STOP
      P1(3) \o MStore8(1, 187) \o Ret(1, 1),              \* leave a word, return a byte
      SStore(2, 9) \o MStore8(0, 204) \o Rev(0, 1) \o <<0>>, \* store, revert with a byte
      Call7(241, Addr.C, 0, 0, 0, 0, 0) \o <<0>>,         \* CALL C, STOP
      Call7(241, Addr.C, 5, 0, 0, 0, 0) \o <<254>>,       \* CALL C with value, INVALID
      <<254>>,                                            \* INVALID
      P1(Addr.O) \o <<255, 0>>,                            \* SELFDESTRUCT to O, STOP
      MStore8(0, 205) \o Log0(0, 1) \o Rev(0, 0),          \* emit a log, revert
      Call6(244, Addr.C, 0, 0, 0, 0) \o <<0>>,             \* DELEGATECALL C, STOP
      CreateP(3, 0, 1) \o <<0>>,                          \* CREATE (init code STOP), STOP
      MStore8(0, 205) \o Log0(0, 1) \o <<0>> }            \* emit a log, STOP

\* code of the callee C
CodeC == SStore(3, 7) \o <<0>>

\* code of the top-level contract A
TopCodes ==
    { P1(7) \o MStore8(0, 170) \o Call7(241, Addr.B, 10, 0, 0, 0, 0),
      P1(7) \o MStore8(0, 170) \o Call7(241, Addr.B, 0, 0, 1, 0, 0) \o <<0>> \o P1(1),
      Call7(241, Addr.B, 0, 0, 0, 32, 1),
      Call6(250, Addr.B, 0, 0, 0, 0),
      SStore(1, 5) \o Call6(250, Addr.D, 0, 0, 0, 0),
      Call7(242, Addr.B, 10, 0, 0, 0, 0),
      Call7(242, Addr.D, 120, 0, 0, 0, 0),
      Call6(244, Addr.B, 0, 0, 0, 0),
      Call7(241, Addr.D, 10, 0, 0, 0, 0),
      Call7(241, Addr.O, 10, 0, 0, 0, 0),
      Call7(241, Addr.D, 0, 0, 0, 0, 0) \o Call7(241, Addr.B, 1, 0, 0, 0, 0),
      Call7(241, Addr.A, 0, 0, 0, 0, 0),
      P1(0) \o P1(0) \o <<253>>,
      MStore8(0, 171) \o Rev(0, 1) \o <<0>>,
      <<254>>,
      <<254, 0>>,
      P1(1) \o <<0>> \o P1(2),
      P1(1) \o <<0>>,
      MStore8(0, 172) \o Ret(0, 1),
      MStore8(0, 172) \o Ret(0, 1) \o P1(5),
      P1(1) \o P1(2),
      <<96>>,
      <<80>>,
      <<12>>,
      \* SELFDESTRUCT to O, CALL B, INVALID
      P1(Addr.O) \o <<255>> \o Call7(241, Addr.B, 0, 0, 0, 0, 0) \o <<254>>,
      P1(Addr.O) \o <<255, 0>>,                            \* SELFDESTRUCT to O, STOP
      <<255>>,                                            \* SELFDESTRUCT, empty stack
      MStore8(0, 206) \o Log0(0, 1) \o Rev(0, 0),          \* emit a log, revert
      MStore8(0, 206) \o Log0(0, 1) \o <<0>>,              \* emit a log, STOP
      Call7(241, Addr.B, 0, 0, 0, 0, 0) \o <<61>> }        \* CALL B, RETURNDATASIZE

\* programs without calls, run with one callee code and one originator
SoloCodes ==
    { \* the stack grows by four words per turn of the loop until a push overflows
      P1(1) \o <<91, 128, 128, 128, 128>> \o P1(2) \o <<86>>,
      <<128>>,                                            \* DUP1, empty stack
      P1(1) \o <<144>>,                                   \* SWAP1, one word
      P1(1) \o P1(2) \o <<144>>,                          \* SWAP1
      P1(4) \o <<86, 254, 91>> \o P1(1),                  \* JUMP to a JUMPDEST
      <<96, 4, 86, 96, 42, 91>>,                          \* JUMP to the byte 0x2A
      P1(9) \o <<86>>,                                    \* JUMP past the end
      P1(3) \o <<86, 0>>,                                 \* JUMP to a STOP
      <<91>> \o P1(0) \o <<86>>,                          \* JUMP to a JUMPDEST at offset 0
      P1(5) \o <<86, 97, 0, 91, 0>>,                      \* JUMP into the immediate of a PUSH2
      P1(4) \o <<86, 96, 91>>,                            \* JUMP into the immediate of a PUSH1
      P1(5) \o <<86>> \o P1(96) \o <<91>>,                \* JUMP to a JUMPDEST after PUSH1 0x60
      P1(0) \o P1(9) \o <<87>> \o P1(1),                  \* JUMPI, condition zero
      P1(1) \o P1(6) \o <<87, 254, 91>>,                  \* JUMPI to a JUMPDEST
      P1(1) \o P1(5) \o <<87, 0>>,                        \* JUMPI to a STOP
      <<97, 1, 2>>,                                       \* PUSH2 0x0102
      <<97, 1>>,                                          \* PUSH2, one byte left
      <<127>> \o Zeros(30) \o <<1, 2>>,                   \* PUSH32 0x..0102
      <<127, 1>>,                                         \* PUSH32, one byte left
      SStore(1, 5) \o <<0>>,                              \* SSTORE, STOP
      <<85>>,                                             \* SSTORE, empty stack
      CreateP(7, 0, 1) \o <<0>>,                          \* CREATE, init code STOP
      MStore8(0, 254) \o CreateP(7, 0, 1) \o <<0>>,       \* CREATE, init code INVALID
      \* CREATE, init code 60 01 60 00 F3: return one byte of memory
      MStore8(0, 96) \o MStore8(1, 1) \o MStore8(2, 96) \o MStore8(4, 243)
          \o CreateP(7, 0, 5) \o <<0>>,
      \* CREATE, init code 60 05 60 01 55 60 01 60 00 F3: SSTORE, return a byte
      MStore8(0, 96) \o MStore8(1, 5) \o MStore8(2, 96) \o MStore8(3, 1)
          \o MStore8(4, 85) \o MStore8(5, 96) \o MStore8(6, 1) \o MStore8(7, 96)
          \o MStore8(9, 243) \o CreateP(0, 0, 10) \o <<0>>,
      CreateP(7, 0, 0) \o <<0>>,                          \* CREATE, empty init code
      CreateP(120, 0, 1) \o <<0>>,                        \* CREATE beyond the balance
      <<240>>,                                            \* CREATE, empty stack
      <<91, 91>> \o P1(1) \o <<86>>,                      \* a loop: JUMP back to offset 1
      P1(Addr.A) \o <<255, 0>>,                           \* SELFDESTRUCT to itself, STOP
      CreateP(3, 0, 1) \o CreateP(4, 0, 1) \o <<0>>,      \* two CREATEs, init code STOP
      <<91>> \o P1(1) \o P1(0) \o <<87>> }                \* JUMPI to a JUMPDEST at offset 0

\* the world state of a scenario
InitState(top, cb) ==
    [a \in {Addr.A, Addr.B, Addr.C, Addr.O} |->
        CASE a = Addr.A -> Account_default(100, top)
          [] a = Addr.B -> Account_default(0, cb)
          [] a = Addr.C -> Account_default(0, CodeC)
          [] a = Addr.O -> Account_default(50, Bytes_new)]

----------------------------------------------------------------------------
(* The state machine *)

\* no run of the test case is over yet
NoRun == [valid |-> FALSE, status |-> "running", result |-> <<>>, state |-> << >>,
          gas |-> 0]

\* no object is under test
NoUnit == [kind |-> "none"]

\* the scenarios: a program with calls under every callee code and
\* originator, a program without calls under one of them
Scenarios ==
    [top : TopCodes, cb : CalleeCodes, orig : {Addr.A, Addr.O, Addr.None}]
        \cup [top : SoloCodes, cb : {<<254>>}, orig : {Addr.A}]

\* the transaction of a test case
TestCall(sc, view) == Call_new(sc.orig, Addr.A, sc.orig, Addr.A, Bytes_new, 0, view)

\* a faulty main that hands a later run the state the run before it left
TestState_shared(sc) ==
    IF status = "running" THEN InitState(sc.top, sc.cb) ELSE frames[1].state

\* Evmtest::state: a clone of the state the test case describes
TestState(sc) == InitState(sc.top, sc.cb)

NoResult == [stack |-> <<>>, logs |-> <<>>, success |-> FALSE, result |-> <<>>]

\* main builds the context of a test case and is about to run it
Start(eng, sc, view) ==
        LET top  == sc.top
            call == TestCall(sc, view)
        IN  /\ status = "running"
            /\ engine = eng
            /\ frames = << ExecutionContext_new(call, TestState(sc), top) >>
            /\ interp = IF eng = "interp" THEN Interpreter_new(call, top) ELSE NoInterp
            /\ calls = << >>
            /\ result = NoResult
            /\ lastCall = NoLastCall
            /\ lastFinal = NoLastFinal
            /\ lastTransfer = NoLastTransfer
            /\ lastStep = NoLastStep
            /\ lastCreate = NoLastCreate
            /\ input = [eng |-> eng, sc |-> sc, view |-> view]
            /\ firstRun = NoRun
            /\ unit = NoUnit
            /\ tick = 0

Init == \E eng \in {"ctx", "interp"}, sc \in Scenarios, view \in BOOLEAN : Start(eng, sc, view)

\* the engine of the frame at level n
LevelEngine(n) == IF engine = "interp" /\ n = 1 THEN "interp" ELSE "ctx"

\* the frame at level n runs below a STATICCALL: one of the call opcodes
\* suspended in the frames above it is a STATICCALL
BelowStaticCall(n) == \E k \in 1..(n - 1) : calls[k].req.kind = "STATICCALL"

\* the CREATEs of the run that succeeded before the one being recorded: who
\* executed each, the address it got and the value it passed
CreatedBefore ==
    IF lastCreate.valid /\ lastCreate.flag # 0
    THEN lastCreate.earlier \cup {[executor |-> lastCreate.executor,
                                   address |-> lastCreate.address,
                                   value |-> lastCreate.value]}
    ELSE lastCreate.earlier

\* the effect of a loop iteration of the frame at level n
ApplyStep(n, o) ==
    /\ lastStep' = [o.ls EXCEPT !.belowStatic = BelowStaticCall(n), !.depth = n]
    /\ IF o.tag = "panic"
       THEN /\ status' = "panic"
            /\ UNCHANGED <<interp, frames, calls, result, lastCall, lastFinal,
                           lastTransfer, lastCreate>>
       ELSE IF o.tag = "cont"
       THEN /\ interp' = o.i
            /\ frames' = [frames EXCEPT ![n] = o.h]
            /\ lastCall' = IF o.called THEN [o.lc EXCEPT !.depth = n] ELSE lastCall
            /\ lastCreate' = IF o.created THEN [o.lcr EXCEPT !.depth = n, !.earlier = CreatedBefore]
                            ELSE lastCreate
            /\ lastTransfer' = IF o.called \/ o.created THEN o.lt ELSE lastTransfer
            /\ UNCHANGED <<calls, status, result, lastFinal>>
       ELSE /\ n < MaxDepth
            /\ interp' = o.i
            /\ frames' = Append([frames EXCEPT ![n] = o.h], o.child)
            /\ calls' = Append(calls, o.info)
            /\ lastTransfer' = o.lt
            /\ UNCHANGED <<status, result, lastCall, lastFinal, lastCreate>>

\* one opcode of a frame run by ExecutionContext::run
StepCtx ==
    LET n == Len(frames) IN
    /\ status = "running"
    /\ LevelEngine(n) = "ctx"
    /\ Ctx_running(frames[n])
    /\ ApplyStep(n, StepOutcome("ctx", interp, frames[n]))
    /\ UNCHANGED <<engine, input, firstRun, unit>>
    /\ tick' = 1 - tick

\* one opcode of the frame run by Interpreter::run
StepInterp ==
    /\ status = "running"
    /\ Len(frames) = 1
    /\ LevelEngine(1) = "interp"
    /\ Interp_running(interp)
    /\ ApplyStep(1, StepOutcome("interp", interp, frames[1]))
    /\ UNCHANGED <<engine, input, firstRun, unit>>
    /\ tick' = 1 - tick

\* a child frame leaves its run loop and the caller's call opcode completes
ReturnFromCall ==
    LET n == Len(frames) IN
    /\ status = "running"
    /\ n > 1
    /\ ~Ctx_running(frames[n])
    /\ LET o == ReturnOutcome(LevelEngine(n - 1), interp, frames[n - 1], frames[n],
                              calls[n - 1], n)
       IN  /\ lastFinal' = o.lf
           /\ IF o.tag = "panic"
              THEN /\ status' = "panic"
                   /\ UNCHANGED <<interp, frames, calls, lastCall, lastCreate>>
              ELSE /\ interp' = o.i
                   /\ frames' = [DropLast(frames, 1) EXCEPT ![n - 1] = o.h]
                   /\ calls' = DropLast(calls, 1)
                   /\ lastCall' = IF o.created THEN lastCall
                                  ELSE [o.lc EXCEPT !.depth = n - 1]
                   /\ lastCreate' = IF o.created THEN [o.lcr EXCEPT !.depth = n - 1,
                                                          !.earlier = CreatedBefore]
                                    ELSE lastCreate
                   /\ UNCHANGED status
    /\ UNCHANGED <<engine, result, lastTransfer, lastStep, input, firstRun, unit>>
    /\ tick' = 1 - tick

\* the top-level ExecutionContext::run returns its EvmResult
FinishCtx ==
    /\ status = "running"
    /\ Len(frames) = 1
    /\ LevelEngine(1) = "ctx"
    /\ ~Ctx_running(frames[1])
    /\ LET r == Ctx_run_end(frames[1])
       IN  /\ frames' = << r.ctx >>
           /\ result' = r.res
           /\ lastFinal' = [valid |-> TRUE, eng |-> "ctx", depth |-> 1,
                            success |-> r.res.success, result |-> r.res.result,
                            pc |-> frames[1].pc, codelen |-> Len(frames[1].code),
                            g |-> frames[1].g, stack |-> frames[1].stack,
                            memory |-> frames[1].memory, state |-> r.ctx.state,
                            logs |-> r.res.logs]
    /\ status' = "done"
    /\ UNCHANGED <<engine, interp, calls, lastCall, lastTransfer, lastStep, lastCreate,
                   input, firstRun, unit>>
    /\ tick' = 1 - tick

\* the top-level Interpreter::run returns its EvmResult
FinishInterp ==
    /\ status = "running"
    /\ Len(frames) = 1
    /\ LevelEngine(1) = "interp"
    /\ ~Interp_running(interp)
    /\ LET r == Interp_run_end(interp)
       IN  /\ result' = r
           /\ lastFinal' = [valid |-> TRUE, eng |-> "interp", depth |-> 1,
                            success |-> r.success, result |-> r.result,
                            pc |-> interp.pc, codelen |-> Len(interp.contract.code),
                            g |-> interp.g, stack |-> interp.stack,
                            memory |-> interp.memory, state |-> frames[1].state,
                            logs |-> r.logs]
    /\ status' = "done"
    /\ UNCHANGED <<engine, interp, frames, calls, lastCall, lastTransfer, lastStep,
                   lastCreate, input, firstRun, unit>>
    /\ tick' = 1 - tick

\* the outcome of the run that is over
RunOutcome ==
    [valid |-> TRUE, status |-> status, result |-> result, state |-> frames[1].state,
     gas |-> IF engine = "interp" THEN interp.gas ELSE frames[1].gas]

\* the first run of the test case is over (it returned or the process
\* aborted); the same test case is run a second time from a context built anew
Rerun ==
    /\ status \in {"done", "panic"}
    /\ ~firstRun.valid
    /\ firstRun' = RunOutcome
    /\ LET call == TestCall(input.sc, input.view)
       IN  /\ frames' = << ExecutionContext_new(call, TestState(input.sc), input.sc.top) >>
           /\ interp' = IF input.eng = "interp" THEN Interpreter_new(call, input.sc.top)
                        ELSE NoInterp
    /\ engine' = input.eng
    /\ calls' = << >>
    /\ status' = "running"
    /\ result' = NoResult
    /\ lastCall' = NoLastCall
    /\ lastFinal' = NoLastFinal
    /\ lastTransfer' = NoLastTransfer
    /\ lastStep' = NoLastStep
    /\ lastCreate' = NoLastCreate
    /\ tick' = 1 - tick
    /\ UNCHANGED <<input, unit>>

Next == StepCtx \/ StepInterp \/ ReturnFromCall \/ FinishCtx \/ FinishInterp \/ Rerun

Spec == Init /\ [][Next]_vars

\* the test cases of the termination check: the loop, a contract that calls
\* itself, a call into B, a program that runs off its end
LiveScenarios ==
    [top : { <<91, 91>> \o P1(1) \o <<86>>,
             Call7(241, Addr.A, 0, 0, 0, 0, 0),
             Call7(241, Addr.B, 0, 0, 0, 32, 1),
             P1(4) \o <<86, 254, 91>> \o P1(1),
             P1(1) \o P1(2) },
     cb : { SStore(2, 9) \o <<0>>, <<254>> },
     orig : {Addr.A}]

LiveInit ==
    \E eng \in {"ctx", "interp"}, sc \in LiveScenarios, view \in BOOLEAN :
        Start(eng, sc, view)

----------------------------------------------------------------------------
(* Storage (primitives/state.rs) and Memory (memory.rs) on their own: the  *)
(* object under test is unit, the executor does not run                    *)

machine == <<engine, interp, frames, calls, status, result, lastCall, lastFinal,
             lastTransfer, lastStep, lastCreate, input, firstRun, tick>>

\* no test case is being run
Idle ==
    /\ status = "unit"
    /\ engine = "ctx"
    /\ frames = << >>
    /\ interp = NoInterp
    /\ calls = << >>
    /\ result = NoResult
    /\ lastCall = NoLastCall
    /\ lastFinal = NoLastFinal
    /\ lastTransfer = NoLastTransfer
    /\ lastStep = NoLastStep
    /\ lastCreate = NoLastCreate
    /\ input = [eng |-> "ctx", sc |-> [top |-> <<>>, cb |-> <<>>, orig |-> Addr.A],
                view |-> FALSE]
    /\ firstRun = NoRun
    /\ tick = 0

Keys == 0..MaxKey

Values == 0..MaxValue

\* Storage::new; written[k] is the value of the latest store(k, v) that no
\* delete(k) followed (zero when there is none), stored the keys ever
\* stored to, before the map before the last operation
StorageInit ==
    /\ Idle
    /\ unit = [kind |-> "storage", storage |-> << >>, written |-> [k \in Keys |-> 0],
               stored |-> {}, op |-> "new", key |-> 0, value |-> 0, loaded |-> 0,
               before |-> << >>]

StorageStore ==
    /\ unit.kind = "storage"
    /\ \E k \in Keys, v \in Values :
          unit' = [unit EXCEPT !.storage = Storage_store(@, k, v), !.written[k] = v,
                               !.stored = @ \cup {k}, !.op = "store", !.key = k,
                               !.value = v, !.loaded = 0, !.before = unit.storage]
    /\ UNCHANGED machine

StorageDelete ==
    /\ unit.kind = "storage"
    /\ \E k \in Keys :
          unit' = [unit EXCEPT !.storage = Storage_delete(@, k), !.written[k] = 0,
                               !.op = "delete", !.key = k, !.value = 0, !.loaded = 0,
                               !.before = unit.storage]
    /\ UNCHANGED machine

StorageLoad ==
    /\ unit.kind = "storage"
    /\ \E k \in Keys :
          unit' = [unit EXCEPT !.op = "load", !.key = k, !.value = 0,
                               !.loaded = Storage_load(unit.storage, k),
                               !.before = unit.storage]
    /\ UNCHANGED machine

StorageNext == StorageStore \/ StorageDelete \/ StorageLoad

StorageSpec == StorageInit /\ [][StorageNext]_vars

Offsets == 0..MaxOffset

\* the values handed to Memory::store: one word, two words, 33 bytes
StoreValues == { [i \in 1..32 |-> 2], [i \in 1..64 |-> 3], [i \in 1..33 |-> 4] }

\* Memory::new; count the operations made, before the memory before the
\* last one, offset and size the range it touched
MemoryInit ==
    /\ Idle
    /\ unit = [kind |-> "memory", memory |-> <<>>, count |-> 0, op |-> "new",
               offset |-> 0, size |-> 0, before |-> <<>>, panic |-> FALSE]

MemoryLoad ==
    /\ unit.kind = "memory" /\ ~unit.panic /\ unit.count < MaxOps
    /\ \E offset \in Offsets :
          unit' = [unit EXCEPT !.memory = Memory_load32(@, offset).memory,
                               !.count = @ + 1, !.op = "load", !.offset = offset,
                               !.size = 32, !.before = unit.memory]
    /\ UNCHANGED machine

MemoryStore ==
    /\ unit.kind = "memory" /\ ~unit.panic /\ unit.count < MaxOps
    /\ \E offset \in Offsets, value \in StoreValues :
          LET r == Memory_store_words(unit.memory, offset, value)
          IN  unit' = [unit EXCEPT !.memory = r.memory, !.panic = r.panic,
                                   !.count = @ + 1, !.op = "store", !.offset = offset,
                                   !.size = Len(value), !.before = unit.memory]
    /\ UNCHANGED machine

MemoryStore8 ==
    /\ unit.kind = "memory" /\ ~unit.panic /\ unit.count < MaxOps
    /\ \E offset \in Offsets :
          unit' = [unit EXCEPT !.memory = Memory_store8(@, offset, 1),
                               !.count = @ + 1, !.op = "store8", !.offset = offset,
                               !.size = 1, !.before = unit.memory]
    /\ UNCHANGED machine

MemoryNext == MemoryLoad \/ MemoryStore \/ MemoryStore8

MemorySpec == MemoryInit /\ [][MemoryNext]_vars

\* a step of a run whose frames are fewer than MaxDepth: there a run loop
\* that has not returned always has a step to take
RunStep ==
    /\ status = "running"
    /\ Len(frames) < MaxDepth
    /\ tick' = 1 - tick

\* a run loop that can take a step takes it: the program is one thread that
\* nothing suspends
LiveSpec == LiveInit /\ [][Next]_vars /\ WF_tick(RunStep)

----------------------------------------------------------------------------
(* Properties *)

\* number of stack arguments of a call opcode
CallArgs(kind) == IF kind \in {"CALL", "CALLCODE"} THEN 7 ELSE 6

\* byte k (from 1) of a memory read as zero past its end
MemByte(m, k) == IF k <= Len(m) THEN m[k] ELSE 0

\* C1: after a sub-call whose child frame ended in failure, the caller's
\* world state equals the world state right before the call opcode
\* (the value transfer made for the call is undone).
C1_FailedCallRestoresState ==
    (lastCall.valid /\ lastCall.ran /\ ~lastCall.childSuccess)
        => lastCall.postState = lastCall.preState

C4_ChildFrameIsPrivate ==
    (lastCall.valid /\ lastCall.ran)
        => /\ lastCall.initStack = <<>>
           /\ lastCall.initMemory = <<>>
           /\ lastCall.postStack =
                Append(DropLast(lastCall.preStack, CallArgs(lastCall.kind)), lastCall.flag)
           /\ \A k \in 1..(Len(lastCall.preMemory) + Len(lastCall.postMemory)) :
                (k <= lastCall.ret_offset \/ k > lastCall.ret_offset + lastCall.ret_size)
                    => MemByte(lastCall.postMemory, k) = MemByte(lastCall.preMemory, k)

\* C5: a CALL with value v > 0 executed by contract A to another address B
\* with empty code debits v from A, credits v to B, runs no child, returns
\* empty data and pushes 1.
C5_CallValueDebitsCaller ==
    (/\ lastCall.valid /\ lastCall.kind = "CALL" /\ lastCall.value > 0
     /\ lastCall.executor # lastCall.recipient
     /\ State_code(lastCall.preState, lastCall.recipient) = <<>>)
        => /\ State_balance(lastCall.postState, lastCall.executor)
                = State_balance(lastCall.preState, lastCall.executor) - lastCall.value
           /\ State_balance(lastCall.postState, lastCall.recipient)
                = State_balance(lastCall.preState, lastCall.recipient) + lastCall.value
           /\ ~lastCall.ran /\ lastCall.result = <<>> /\ lastCall.pushed = <<1>>

\* the parts of the transfer contract that do not move value
TransferNoMove(t) ==
    /\ t.value = 0 => (t.ok /\ t.post = t.pre)
    /\ (t.value > 0 /\ (t.from \notin DOMAIN t.pre \/ State_balance(t.pre, t.from) < t.value))
          => (~t.ok /\ t.post = t.pre)

\* the transfer moves value
TransferMoves(t) ==
    t.value > 0 /\ t.from \in DOMAIN t.pre /\ State_balance(t.pre, t.from) >= t.value

C7_RevertFinalizesWithFailure ==
    (lastFinal.valid /\ lastFinal.g.term \in {"REVERT", "INVALID"})
        => /\ ~lastFinal.success
           /\ lastFinal.g.term = "REVERT" => lastFinal.result = lastFinal.g.data

\* C8: a frame that executed STOP finalizes with success = true, executed no
\* opcode after the STOP, and ends with the stack, memory and state reached
\* at the STOP.
C8_StopEndsRun ==
    (lastFinal.valid /\ lastFinal.g.term = "STOP")
        => /\ lastFinal.success
           /\ ~lastFinal.g.after
           /\ lastFinal.stack = lastFinal.g.stack
           /\ lastFinal.memory = lastFinal.g.memory
           /\ lastFinal.state = lastFinal.g.state

\* C9: a frame that executed RETURN finalizes with success = true and the
\* return data memory[offset..offset+size], and executed no opcode after it.
C9_ReturnEndsRun ==
    (lastFinal.valid /\ lastFinal.g.term = "RETURN")
        => /\ lastFinal.success
           /\ lastFinal.result = lastFinal.g.data
           /\ ~lastFinal.g.after

\* C10: a frame whose pc reached the end of the code without having executed
\* STOP, RETURN, REVERT (or INVALID) finalizes with success = true and
\* zero-length return data.
C10_EndOfCodeIsEmptySuccess ==
    (lastFinal.valid /\ lastFinal.g.term = "NONE" /\ lastFinal.pc >= lastFinal.codelen)
        => /\ lastFinal.success
           /\ lastFinal.result = <<>>

\* the number of immediate bytes of the opcode byte b
PushWidth(b) == IF b \in 96..127 THEN b - 95 ELSE 0

\* k is reached by decoding code from offset `from` and skipping PUSH immediates
RECURSIVE DecodeReaches(_, _, _)
DecodeReaches(code, from, k) ==
    IF from >= k THEN from = k
    ELSE IF from >= Len(code) THEN FALSE
    ELSE DecodeReaches(code, from + 1 + PushWidth(code[from + 1]), k)

\* k is len(code) or the offset of an opcode byte of code
InstrBoundary(code, k) == k = Len(code) \/ (k < Len(code) /\ DecodeReaches(code, 0, k))

\* the words an opcode pops (DUP1 and SWAP1: the depth they need)
StackNeed(op) ==
    CASE op \in {"POP", "SLOAD", "JUMP", "DUP1", "SELFDESTRUCT"} -> 1
      [] op \in {"MSTORE", "MSTORE8", "SSTORE", "JUMPI", "SWAP1", "LOG0",
                 "RETURN", "REVERT"} -> 2
      [] op \in {"DELEGATECALL", "STATICCALL"} -> 6
      [] op \in {"CALL", "CALLCODE"} -> 7
      [] OTHER -> 0

\* the step met a stack with too few words, or pushes onto a full stack
StackFault(ls) ==
    \/ Len(ls.stack0) < StackNeed(ls.op)
    \/ ls.op \in {"PUSH1", "PUSH2", "PUSH32", "DUP1"} /\ Len(ls.stack0) = StackMaxDepth

\* C11: when the byte at pc is not a defined opcode the frame reverts
\* (the run ends with success = false); the process does not abort.
C11_UnknownByteReverts ==
    (lastStep.valid /\ lastStep.op = "Err")
        => (lastStep.flow = "Revert" /\ status # "panic")

\* C12: an opcode that needs more words than the stack holds (DUP1 and
\* SWAP1 included), or that pushes onto a stack of depth 1024, makes the
\* frame revert; the process does not abort.
C12_StackFaultReverts ==
    (lastStep.valid /\ StackFault(lastStep))
        => (lastStep.flow = "Revert" /\ status # "panic")

\* C13: in every reachable state the stack of every frame holds at most
\* 1024 words.
C13_StackDepthBounded ==
    /\ \A n \in DOMAIN frames : Len(frames[n].stack) <= StackMaxDepth
    /\ Len(interp.stack) <= StackMaxDepth
    /\ Len(lastStep.stack1) <= StackMaxDepth

\* a push met a stack of exactly 1024 words
C13_Witness ==
    /\ lastStep.valid /\ lastStep.op = "DUP1"
    /\ Len(lastStep.stack0) = StackMaxDepth
    /\ Len(lastStep.stack1) = StackMaxDepth

\* the step is a JUMP, or a JUMPI with a non-zero condition, with its operands
JumpTaken(ls) ==
    \/ ls.op = "JUMP" /\ Len(ls.stack0) >= 1
    \/ ls.op = "JUMPI" /\ Len(ls.stack0) >= 2 /\ Top(ls.stack0, 2) # 0

\* t is the offset of a JUMPDEST instruction of code
ValidTarget(code, t) ==
    t < Len(code) /\ code[t + 1] = 91 /\ DecodeReaches(code, 0, t)

\* C14: a JUMP, or a JUMPI with non-zero condition, continues with pc set to
\* the target exactly when the target byte is JUMPDEST outside every PUSH
\* immediate; with every other target the frame reverts.
C14_JumpExactlyToJumpdest ==
    (lastStep.valid /\ JumpTaken(lastStep))
        => IF ValidTarget(lastStep.code, Top(lastStep.stack0, 1))
           THEN lastStep.flow = "Continue" /\ lastStep.pc1 = Top(lastStep.stack0, 1)
           ELSE lastStep.flow = "Revert"

\* C15: a JUMP whose target is at or beyond len(code), or whose target byte
\* is not a defined opcode, makes the frame revert; the process does not abort.
C15_JumpOutOfCodeReverts ==
    (/\ lastStep.valid /\ lastStep.op = "JUMP" /\ Len(lastStep.stack0) >= 1
     /\ \/ Top(lastStep.stack0, 1) >= Len(lastStep.code)
        \/ Opcode_try_from(lastStep.code[Top(lastStep.stack0, 1) + 1]) = "Err")
        => (lastStep.flow = "Revert" /\ status # "panic")

\* C16: in every reachable state the pc of every frame is len(code) or the
\* offset of an opcode byte: it never exceeds len(code) and never points
\* into a PUSH immediate.
C16_PcOnInstruction ==
    /\ \A n \in DOMAIN frames : InstrBoundary(frames[n].code, frames[n].pc)
    /\ InstrBoundary(interp.contract.code, interp.pc)

\* the n immediate bytes after offset pc, bytes past the end of code read as zero
Immediate(code, pc, n) ==
    [k \in 1..n |-> IF pc + 1 + k <= Len(code) THEN code[pc + 1 + k] ELSE 0]

\* C17: PUSHn pushes the n bytes after the opcode as a right-aligned word and
\* advances pc by 1 + n; bytes missing at the end of the code read as zero
\* and the frame does not fail.
C17_PushReadsImmediate ==
    (/\ lastStep.valid /\ lastStep.op \in {"PUSH1", "PUSH2", "PUSH32"}
     /\ Len(lastStep.stack0) < StackMaxDepth)
        => /\ lastStep.flow = "Continue"
           /\ lastStep.pc1 = lastStep.pc0 + 1 + PushWidth(lastStep.code[lastStep.pc0 + 1])
           /\ lastStep.stack1 =
                Append(lastStep.stack0,
                       BigEndian(Immediate(lastStep.code, lastStep.pc0,
                                           PushWidth(lastStep.code[lastStep.pc0 + 1]))))

\* C18: the result of a frame that finalizes with success = false lists no
\* log the frame emitted.
C18_FailedFrameReportsNoLog ==
    (lastFinal.valid /\ ~lastFinal.success)
        => \A k \in DOMAIN lastFinal.g.logs :
               lastFinal.g.logs[k] \notin Range(lastFinal.logs)

\* C19: an account a frame queued with SELFDESTRUCT is absent from the world
\* state when the frame has finalized exactly if the frame succeeded; after
\* a failed frame it is still present.
C19_DeletionIffSuccess ==
    lastFinal.valid
        => \A a \in lastFinal.g.queued :
               lastFinal.success <=> (a \notin DOMAIN lastFinal.state)

\* C20: in a static frame SSTORE and SELFDESTRUCT make the frame revert and
\* change no storage slot, no balance and no pending deletion.
C20_StaticWritesRevert ==
    (lastStep.valid /\ lastStep.static /\ lastStep.op \in {"SSTORE", "SELFDESTRUCT"})
        => /\ lastStep.flow = "Revert"
           /\ status # "panic"
           /\ lastStep.state1 = lastStep.state0
           /\ lastStep.to_delete1 = lastStep.to_delete0

\* C21: in a static frame a LOG0 makes the frame revert and appends no log
\* (LOG1..LOG4 are the same text with topics)
C21_StaticLogReverts ==
    (lastStep.valid /\ lastStep.op = "LOG0" /\ lastStep.static
        /\ Len(lastStep.stack0) >= 2)
        => (lastStep.flow = "Revert" /\ lastStep.logs1 = lastStep.logs0)

\* C22: a child started by CALL from a static frame is static, and no frame
\* below a STATICCALL executes SSTORE successfully
C22_StaticIsInherited ==
    /\ (lastCall.valid /\ lastCall.kind = "CALL" /\ lastCall.parentStatic)
           => lastCall.view
    /\ (lastStep.valid /\ lastStep.op = "SSTORE" /\ lastStep.belowStatic)
           => lastStep.flow # "Continue"

\* C23: after a sub-call that ran a child frame the caller's return data
\* buffer is the child's return data, whether the child succeeded or
\* failed; a RETURNDATASIZE that follows pushes its length
C23_ReturnDataIsChildData ==
    /\ (lastCall.valid /\ lastCall.ran)
           => lastCall.postReturnData = lastCall.result
    /\ (lastStep.valid /\ lastStep.op = "RETURNDATASIZE" /\ lastStep.flow = "Continue"
           /\ lastCall.valid /\ lastCall.ran /\ lastCall.depth = lastStep.depth)
           => Top(lastStep.stack1, 1) = Len(lastCall.result)

\* C24: CALLCODE runs the target's code with recipient = the current
\* contract; DELEGATECALL runs it with sender = the caller of the current
\* frame, recipient = the current contract, value = the current call value
C24_CallcodeDelegatecallContext ==
    /\ (lastCall.valid /\ lastCall.kind = "CALLCODE")
           => /\ lastCall.code_target = Top(lastCall.preStack, 2)
              /\ lastCall.recipient = lastCall.executor
    /\ (lastCall.valid /\ lastCall.kind = "DELEGATECALL")
           => /\ lastCall.code_target = Top(lastCall.preStack, 2)
              /\ lastCall.sender = lastCall.parentCaller
              /\ lastCall.recipient = lastCall.executor
              /\ lastCall.value = lastCall.parentValue

\* C26: a CALL whose value exceeds the balance of the contract executing it
\* makes the calling frame revert and leaves every balance unchanged
C26_CallBeyondBalanceReverts ==
    (lastStep.valid /\ lastStep.op = "CALL" /\ Len(lastStep.stack0) >= 7
        /\ Top(lastStep.stack0, 3) > State_balance(lastStep.state0, lastStep.address))
        => /\ lastStep.flow = "Revert"
           /\ \A a \in DOMAIN Addr :
                  State_balance(lastStep.state1, Addr[a])
                      = State_balance(lastStep.state0, Addr[a])

\* C25: after a successful CREATE with value v whose init code returned R the
\* state holds, at the derived address, an account with code R, balance v,
\* nonce 0 and empty storage, and the pushed word is that address; after a
\* failed CREATE the pushed word is 0 and no account is at that address
C25_CreateInstallsAccount ==
    lastCreate.valid =>
        LET a == lastCreate.address
            s == lastCreate.postState
        IN  /\ lastCreate.flag # 0 =>
                  /\ a \in DOMAIN s
                  /\ s[a].bytecode = lastCreate.result
                  /\ s[a].balance = lastCreate.value
                  /\ s[a].nonce = 0
                  /\ s[a].storage = << >>
                  /\ Top(lastCreate.postStack, 1) = a
            /\ lastCreate.flag = 0 =>
                  /\ Top(lastCreate.postStack, 1) = 0
                  /\ a \notin DOMAIN s

\* C27: every top-level run terminates, also a program with backward jumps
\* and a contract that calls itself (runs that the model stops exploring at
\* MaxDepth nested frames are not counted against the claim)
C27_EveryRunTerminates ==
    <>(status # "running" \/ Len(frames) = MaxDepth)

C29_StorageIsAMap ==
    unit.kind = "storage" =>
        /\ \A k \in Keys : Storage_load(unit.storage, k) = unit.written[k]
        /\ unit.op = "load" => unit.loaded = unit.written[unit.key]
        /\ unit.op = "store" =>
              \A k \in Keys \ {unit.key} :
                  Storage_load(unit.storage, k) = Storage_load(unit.before, k)

\* a store to one key while another key holds a value and a third, stored
\* to before, is deleted
C29_Witness ==
    /\ unit.kind = "storage" /\ unit.op = "store" /\ unit.value # 0
    /\ \E k \in Keys \ {unit.key} : Storage_load(unit.storage, k) # 0
    /\ \E k \in unit.stored \ {unit.key} : k \notin DOMAIN unit.storage

\* C30: after a memory operation (load, store, store8) that touches
\* [offset, offset + size) the physical length is max(previous length,
\* ceil((offset + size) / 32) * 32), a multiple of 32, the bytes added and
\* not written are zero, and size() is the physical length
C30_MemoryGrowsByWords ==
    (unit.kind = "memory" /\ unit.op \in {"load", "store", "store8"} /\ ~unit.panic) =>
        LET need == ((unit.offset + unit.size + 31) \div 32) * 32
            prev == Len(unit.before)
            now  == Len(unit.memory)
        IN  /\ now = (IF prev > need THEN prev ELSE need)
            /\ now % 32 = 0
            /\ \A i \in (prev + 1)..now :
                   (i <= unit.offset \/ i > unit.offset + unit.size \/ unit.op = "load")
                       => unit.memory[i] = 0
            /\ Memory_size(unit.memory) = now

\* the sum of the balances of the accounts in addrs
RECURSIVE SumBalances(_, _)
SumBalances(s, addrs) ==
    IF addrs = {} THEN 0
    ELSE LET a == CHOOSE x \in addrs : TRUE
         IN  s[a].balance + SumBalances(s, addrs \ {a})

TotalBalance(s) == SumBalances(s, DOMAIN s)

\* C31: the sum of the balances of all accounts is the same before and
\* after a top-level run
C31_BalanceIsConserved ==
    status = "done" => TotalBalance(frames[1].state) = TotalBalance(TestState(input.sc))

\* C32: the logs a child frame emitted are appended to the logs of its
\* parent, in emission order, when the child ends in success, and the
\* parent's logs are what they were before the call when it ends in failure
C32_ChildLogsReachTheParent ==
    (lastCall.valid /\ lastCall.ran /\ lastFinal.valid
                    /\ lastFinal.depth = lastCall.depth + 1) =>
        /\ lastCall.childSuccess => lastCall.postLogs = lastFinal.logs
        /\ ~lastCall.childSuccess => lastCall.postLogs = lastCall.preLogs

\* C33: a CREATE that succeeds derives an address that no earlier CREATE of
\* the same contract in the run derived, and the accounts those created are
\* still there with the balance they were created with
C33_CreatesDeriveDistinctAddresses ==
    (lastCreate.valid /\ lastCreate.flag # 0) =>
        \A e \in lastCreate.earlier :
            e.executor = lastCreate.executor =>
                /\ e.address # lastCreate.address
                /\ State_balance(lastCreate.postState, e.address) = e.value

\* C34: a JUMP, or a JUMPI with a non-zero condition, to offset 0 when
\* code[0] is JUMPDEST is a valid jump: pc becomes 0 and the frame goes on
C34_JumpToOffsetZero ==
    (/\ lastStep.valid
     /\ lastStep.op \in {"JUMP", "JUMPI"}
     /\ Len(lastStep.stack0) >= (IF lastStep.op = "JUMP" THEN 1 ELSE 2)
     /\ Top(lastStep.stack0, 1) = 0
     /\ lastStep.op = "JUMPI" => Top(lastStep.stack0, 2) # 0
     /\ Opcode_try_from(lastStep.code[1]) = "JUMPDEST") =>
        /\ lastStep.flow = "Continue"
        /\ lastStep.pc1 = 0

----------------------------------------------------------------------------
(* 256-bit words.  A U256 (ethereum_types) and a Bytes32 are both written  *)
(* as their 32 bytes, most significant first: Bytes32::to_u256 reads the   *)
(* bytes big-endian and Bytes32::from_u256 writes them big-endian, so on   *)
(* 32 bytes the two conversions keep the byte string.                      *)

WordBytes == 32

Pow2(j) == <<1, 2, 4, 8, 16, 32, 64, 128, 256>>[j + 1]

\* bit j (0 the lowest) of a byte
ByteBit(x, j) == (x \div Pow2(j)) % 2

ByteOr(x, y) ==
    LET o(j) == IF ByteBit(x, j) = 1 \/ ByteBit(y, j) = 1 THEN Pow2(j) ELSE 0
    IN  o(0) + o(1) + o(2) + o(3) + o(4) + o(5) + o(6) + o(7)

\* the byte string a function over 1..n stands for, its bytes computed
Bytes_of(f, n) == SubSeq(f, 1, n)

U256_zero == Zeros(WordBytes)

U256_one == Zeros(WordBytes - 1) \o <<1>>

U256_MAX == [i \in 1..WordBytes |-> 255]

\* U256::from of a small number
U256_from(n) == Bytes32_as_bytes(n)

U256_is_zero(a) == a = U256_zero

\* a < b on byte strings of one length
Big_lt(a, b) ==
    \E i \in 1..Len(a) : a[i] < b[i] /\ \A j \in 1..(i - 1) : a[j] = b[j]

\* a + b on byte strings of one length, the carry out of the top dropped.
\* The carry into byte i is 1 when a lower byte overflows and every byte
\* between passes a carry on.
Big_add(a, b) ==
    LET n == Len(a)
        c(i) == IF \E j \in (i + 1)..n :
                       /\ a[j] + b[j] > 255
                       /\ \A k \in (i + 1)..(j - 1) : a[k] + b[k] = 255
                THEN 1 ELSE 0
    IN  Bytes_of([i \in 1..n |-> (a[i] + b[i] + c(i)) % 256], n)

\* a - b on byte strings of one length, for a >= b.  The borrow out of
\* byte i is 1 when a lower byte is short and every byte between is level.
Big_sub(a, b) ==
    LET n == Len(a)
        w(i) == IF \E j \in (i + 1)..n :
                       /\ a[j] < b[j]
                       /\ \A k \in (i + 1)..(j - 1) : a[k] = b[k]
                THEN 1 ELSE 0
    IN  Bytes_of([i \in 1..n |-> (a[i] - b[i] - w(i) + 256) % 256], n)

\* 2 * a + bit on a byte string, the carry out of the top dropped
Big_shl1(a, bit) ==
    Bytes_of([i \in 1..Len(a) |->
                 (2 * a[i] + (IF i = Len(a) THEN bit ELSE a[i + 1] \div 128)) % 256],
             Len(a))

U256_lt(a, b) == Big_lt(a, b)

U256_not(a) == Bytes_of([i \in 1..WordBytes |-> 255 - a[i]], WordBytes)

\* overflowing_add(..).0
U256_overflowing_add(a, b) == Big_add(a, b)

\* the two's complement a.not().overflowing_add(U256::one()).0
U256_twos(a) == U256_overflowing_add(U256_not(a), U256_one)

\* bit index of a word that is known to have it (index < 256)
WordBit(a, index) == ByteBit(a[WordBytes - (index \div 8)], index % 8)

\* U256::bit(index): arr[index / 64] & (1 << (index % 64)) != 0 on the four
\* limbs; an index past the last limb is out of the array's bounds
U256_bit(a, index) ==
    IF index \div 64 >= WordBytes \div 8 THEN [panic |-> TRUE, bit |-> FALSE]
    ELSE [panic |-> FALSE, bit |-> WordBit(a, index) = 1]

\* U256::shl(shift): bit k of the result is bit k - shift of a; a shift of
\* the whole width or more leaves zero
U256_shl(a, shift) ==
    LET b(k) == IF k >= shift THEN WordBit(a, k - shift) ELSE 0
        byte(p) == b(8 * p) + 2 * b(8 * p + 1) + 4 * b(8 * p + 2) + 8 * b(8 * p + 3)
                   + 16 * b(8 * p + 4) + 32 * b(8 * p + 5) + 64 * b(8 * p + 6)
                   + 128 * b(8 * p + 7)
    IN  Bytes_of([i \in 1..WordBytes |-> byte(WordBytes - i)], WordBytes)

U256_bitor(a, b) == Bytes_of([i \in 1..WordBytes |-> ByteOr(a[i], b[i])], WordBytes)

\* U256::bits: the number of bits the value needs, 0 for zero
U256_bits(a) ==
    IF a = U256_zero THEN 0
    ELSE 1 + (CHOOSE k \in 0..(8 * WordBytes - 1) :
                 WordBit(a, k) = 1 /\ \A j \in (k + 1)..(8 * WordBytes - 1) : WordBit(a, j) = 0)

\* the value of a word that fits three bytes
Small(a) == BigEndian(SubSeq(a, WordBytes - 2, WordBytes))

IsSmall(a) == SubSeq(a, 1, WordBytes - 3) = Zeros(WordBytes - 3)

\* (256^4 * r + a[k+1..k+4]) % m for m below 2^23 and r below m
Rem_small_from(a, m, k, r) ==
    LET h(q, x) == (q * 256 + x) % m
    IN  h(h(h(h(r, a[k + 1]), a[k + 2]), a[k + 3]), a[k + 4])

\* a % m for a number m below 2^23, over the bytes of a from the top, four
\* at a time
Rem_small(a, m) ==
    CHOOSE r \in
        {Rem_small_from(a, m, 28, r7) : r7 \in
        {Rem_small_from(a, m, 24, r6) : r6 \in
        {Rem_small_from(a, m, 20, r5) : r5 \in
        {Rem_small_from(a, m, 16, r4) : r4 \in
        {Rem_small_from(a, m, 12, r3) : r3 \in
        {Rem_small_from(a, m, 8, r2) : r2 \in
        {Rem_small_from(a, m, 4, r1) : r1 \in
        {Rem_small_from(a, m, 0, 0)}}}}}}}} : TRUE

\* a % b for b > 0.  The cases are those of the operands the model draws: a
\* divisor below 2^23, or a dividend below twice the divisor.
U256_rem(a, b) ==
    CASE IsSmall(b) /\ Small(b) < 8388608 ->
             U256_from(Rem_small(a, Small(b)))
      [] ~IsSmall(b) /\ Big_lt(a, b) -> a
      [] ~IsSmall(b) /\ ~Big_lt(a, b) /\ Big_lt(Big_sub(a, b), b) -> Big_sub(a, b)

\* a * b modulo 2^256, by the schoolbook columns.  Column p (0 the lowest)
\* sums the products of the bytes whose places add up to p; a column is
\* below 2^24, so its three bytes go to the places p, p + 1 and p + 2 of
\* three byte strings, which are added.
U256_overflowing_mul(a, b) ==
    LET n == WordBytes
        t(p, i) == IF i <= p THEN a[n - i] * b[n - (p - i)] ELSE 0
        t4(p, i) == t(p, i) + t(p, i + 1) + t(p, i + 2) + t(p, i + 3)
        col(p) == IF p < 0 THEN 0
                  ELSE t4(p, 0) + t4(p, 4) + t4(p, 8) + t4(p, 12)
                       + t4(p, 16) + t4(p, 20) + t4(p, 24) + t4(p, 28)
        low == Bytes_of([i \in 1..n |-> col(n - i) % 256], n)
        mid == Bytes_of([i \in 1..n |-> (col(n - i - 1) \div 256) % 256], n)
        top == Bytes_of([i \in 1..n |-> col(n - i - 2) \div 65536], n)
    IN  Big_add(Big_add(low, mid), top)

\* one step of square and multiply: the next bit of the exponent.  The
\* square is computed before the product that uses it.
Pow_bit(acc, base, bit) ==
    IF bit = 1
    THEN CHOOSE r \in {U256_overflowing_mul(sq, base) : sq \in {U256_overflowing_mul(acc, acc)}} : TRUE
    ELSE U256_overflowing_mul(acc, acc)

\* the eight steps of a byte x of the exponent, its top bit first, each
\* step computed before the next one uses it
Pow_byte(acc, base, x) ==
    CHOOSE r \in
        {Pow_bit(s1, base, ByteBit(x, 0)) : s1 \in
        {Pow_bit(s2, base, ByteBit(x, 1)) : s2 \in
        {Pow_bit(s3, base, ByteBit(x, 2)) : s3 \in
        {Pow_bit(s4, base, ByteBit(x, 3)) : s4 \in
        {Pow_bit(s5, base, ByteBit(x, 4)) : s5 \in
        {Pow_bit(s6, base, ByteBit(x, 5)) : s6 \in
        {Pow_bit(s7, base, ByteBit(x, 6)) : s7 \in
        {Pow_bit(acc, base, ByteBit(x, 7))}}}}}}}} : TRUE

\* overflowing_pow(..).0, a ^ b modulo 2^256.  The cases are those of the
\* operands the model draws: an exponent of one byte by square and
\* multiply; above that a base of 0 or 1, or an even base, whose power
\* from 256 on is a multiple of 2^256.
U256_overflowing_pow(a, b) ==
    CASE SubSeq(b, 1, WordBytes - 1) = Zeros(WordBytes - 1) ->
             Pow_byte(U256_one, a, b[WordBytes])
      [] SubSeq(b, 1, WordBytes - 1) # Zeros(WordBytes - 1) /\ a = U256_one -> U256_one
      [] SubSeq(b, 1, WordBytes - 1) # Zeros(WordBytes - 1) /\ a[WordBytes] % 2 = 0
             -> U256_zero

\* U256::as_usize: the value when it fits the eight bytes of a usize, a
\* panic otherwise
U256_as_usize(a) ==
    IF SubSeq(a, 1, WordBytes - 8) # Zeros(WordBytes - 8)
    THEN [panic |-> TRUE, value |-> 0]
    ELSE [panic |-> FALSE, value |-> BigEndian(SubSeq(a, WordBytes - 7, WordBytes))]

----------------------------------------------------------------------------
(* Opcodes over 256-bit words, run one at a time on a frame of their own:  *)
(* the stack holds Bytes32 values as their 32 bytes.  The handlers are the *)
(* same in opcode.rs and interpreter/opcodes/mod.rs.                       *)

\* the part of a frame these opcodes touch
WordFrame(stack, memory, calldata) ==
    [pc |-> 0, stack |-> stack, memory |-> memory, gas |-> 0, calldata |-> calldata,
     flow |-> "Continue"]

Op_SLT(x) ==
    IF Len(x.stack) < 2 THEN Panic(x)
    ELSE LET a == Top(x.stack, 1)
             b == Top(x.stack, 2)
             a_twos == U256_twos(a)
             b_twos == U256_twos(b)
         IN  PushThen([x EXCEPT !.stack = DropLast(@, 2), !.gas = @ + fix_gas("SLT")],
                      IF U256_lt(b_twos, a_twos) THEN U256_one ELSE U256_zero, 1)

Op_SGT(x) ==
    IF Len(x.stack) < 2 THEN Panic(x)
    ELSE LET a == Top(x.stack, 1)
             b == Top(x.stack, 2)
             a_twos == U256_twos(a)
             b_twos == U256_twos(b)
         IN  PushThen([x EXCEPT !.stack = DropLast(@, 2), !.gas = @ + fix_gas("SGT")],
                      IF U256_lt(a_twos, b_twos) THEN U256_one ELSE U256_zero, 1)

\* SMOD: the remainder of the magnitudes, negated when a or b is negative
Op_SMOD(x) ==
    IF Len(x.stack) < 2 THEN Panic(x)
    ELSE LET a == Top(x.stack, 1)
             b == Top(x.stack, 2)
             a_neg == U256_bit(a, 8 * WordBytes - 1).bit
             b_neg == U256_bit(b, 8 * WordBytes - 1).bit
             div == U256_rem(IF a_neg THEN U256_twos(a) ELSE a,
                             IF b_neg THEN U256_twos(b) ELSE b)
         IN  PushThen([x EXCEPT !.stack = DropLast(@, 2), !.gas = @ + fix_gas("SMOD")],
                      IF U256_is_zero(b) THEN U256_zero
                      ELSE IF a_neg \/ b_neg THEN U256_twos(div) ELSE div, 1)

\* SIGNEXTEND: exp is read as a usize (as_usize panics beyond it); the bit
\* (exp + 1) * 8 - 1 is read with U256::bit
Op_SIGNEXTEND(x) ==
    IF Len(x.stack) < 2 THEN Panic(x)
    ELSE LET exp == U256_as_usize(Top(x.stack, 1))
             num == Top(x.stack, 2)
             id  == (exp.value + 1) * 8
             sign == U256_bit(num, id - 1)
         IN  IF exp.panic THEN Panic(x)
             ELSE IF sign.panic THEN Panic(x)
             ELSE PushThen([x EXCEPT !.stack = DropLast(@, 2),
                                     !.gas = @ + fix_gas("SIGNEXTEND")],
                           IF sign.bit THEN U256_bitor(U256_shl(U256_MAX, id), num)
                           ELSE num, 1)

\* EXP: var_gas is 50 * (b.bits() + 7) for a non-zero exponent
Op_EXP(x) ==
    IF Len(x.stack) < 2 THEN Panic(x)
    ELSE LET a == Top(x.stack, 1)
             b == Top(x.stack, 2)
             var_gas == IF b # U256_zero THEN 50 * (U256_bits(b) + 7) ELSE 0
         IN  PushThen([x EXCEPT !.stack = DropLast(@, 2),
                                !.gas = @ + fix_gas("EXP") + var_gas],
                      U256_overflowing_pow(a, b), 1)

\* Keccak256::digest: a hash, taken as some function of the bytes into
\* 32-byte words
Keccak256_digest(data) ==
    U256_from(1 + Len(data) + 3 * BigEndian(SubSeq(data, 1, IF Len(data) < 2 THEN Len(data) ELSE 2)))

\* SHA3: the gas is fix_gas + 6 * (size + 31) / 32, computed left to right
Op_SHA3(x) ==
    IF Len(x.stack) < 2 THEN Panic(x)
    ELSE LET offset == U256_as_usize(Top(x.stack, 1))
             size   == U256_as_usize(Top(x.stack, 2))
             ld     == Memory_load(x.memory, offset.value, size.value)
         IN  IF offset.panic \/ size.panic THEN Panic(x)
             ELSE PushThen([x EXCEPT !.stack = DropLast(@, 2),
                                     !.gas = @ + fix_gas("SHA3")
                                               + (6 * (size.value + 31)) \div 32,
                                     !.memory = ld.memory],
                           Keccak256_digest(ld.data), 1)

\* CALLDATALOAD: (end, len) is (32, 32 - offset) when offset + 32 passes the
\* end of the calldata, (offset + 32, 32) otherwise; 32 - offset underflows
\* for offset > 32 and the slices calldata[offset..end] and result[..len]
\* panic out of their ranges (with or without overflow checks the frame
\* aborts)
Op_CALLDATALOAD(x) ==
    IF Len(x.stack) < 1 THEN Panic(x)
    ELSE LET offset == U256_as_usize(Top(x.stack, 1))
             calldata == x.calldata
             past == offset.value + 32 > Len(calldata)
             end == IF past THEN 32 ELSE offset.value + 32
             len == IF past THEN 32 - offset.value ELSE 32
             x1 == [x EXCEPT !.stack = DropLast(@, 1),
                             !.gas = @ + fix_gas("CALLDATALOAD")]
         IN  IF offset.panic THEN Panic(x)
             ELSE IF len < 0 THEN Panic(x)
             ELSE IF end > Len(calldata) THEN Panic(x)
             ELSE PushThen(x1, SubSeq(calldata, offset.value + 1, end)
                                   \o Zeros(32 - len), 1)

MaxMagnitude == 7

MaxSize == 65

MaxCalldata == 40

\* -n as a word
U256_neg(n) == U256_twos(U256_from(n))

\* the least and the greatest signed word: -2^255 and 2^255 - 1
SignedMin == <<128>> \o Zeros(WordBytes - 1)

SignedMax == <<127>> \o [i \in 1..(WordBytes - 1) |-> 255]

\* the operands of the signed opcodes: small magnitudes of both signs and
\* the two ends of the signed range
SignedWords ==
    {U256_from(n) : n \in 0..MaxMagnitude} \cup {U256_neg(n) : n \in 1..MaxMagnitude}
        \cup {SignedMin, SignedMax}

\* the byte indexes handed to SIGNEXTEND: the low ones, those around the
\* width of a word, and one that no usize holds
ExtendIndexes ==
    {U256_from(k) : k \in {0, 1, 2, 30, 31, 32, 33}} \cup {SignedMin}

\* the values handed to SIGNEXTEND: the sign bit of the low byte and of the
\* second byte set and clear, with and without bits above them
ExtendWords ==
    {U256_from(v) : v \in {0, 1, 127, 128, 255, 256, 383, 384, 32767, 32768, 65535,
                            65536, 98303, 98304, 8388607, 8388608}}
        \cup {SignedMin, SignedMax, U256_MAX}

\* the (base, exponent) pairs of EXP: exponents of one byte under every
\* base, longer exponents under the bases 0, 1, 2 and 10
ExpPairs ==
    ({U256_from(a) : a \in {0, 1, 2, 3, 10}}
        \X {U256_from(b) : b \in {0, 1, 2, 3, 127, 128, 255}})
    \cup ({U256_from(a) : a \in {0, 1, 2, 10}}
        \X ({U256_from(b) : b \in {256, 257, 65535, 65536, 16777215, 16777216}}
               \cup {SignedMin, SignedMax, U256_MAX}))

\* calldata of n bytes, each byte telling its place
CalldataOf(n) == [i \in 1..n |-> i]

\* the frames the opcodes are run on: the operands are on a stack that
\* holds one more word below them
WordInputs ==
    [op : {"SLT", "SGT", "SMOD"},
     x0 : {WordFrame(<<U256_MAX, b, a>>, <<>>, <<>>) : a \in SignedWords, b \in SignedWords}]
    \cup [op : {"SIGNEXTEND"},
          x0 : {WordFrame(<<U256_MAX, num, k>>, <<>>, <<>>) :
                   k \in ExtendIndexes, num \in ExtendWords}]
    \cup [op : {"EXP"},
          x0 : {WordFrame(<<U256_MAX, p[2], p[1]>>, <<>>, <<>>) : p \in ExpPairs}]
    \cup [op : {"SHA3"},
          x0 : {WordFrame(<<U256_MAX, U256_from(size), U256_from(offset)>>, m, <<>>) :
                   size \in 0..MaxSize, offset \in Offsets,
                   m \in {<<>>, [i \in 1..32 |-> 9]}}]
    \cup [op : {"CALLDATALOAD"},
          x0 : {WordFrame(<<U256_MAX, offset>>, <<>>, CalldataOf(n)) :
                   offset \in {U256_from(i) : i \in 0..(MaxCalldata + 2)} \cup {SignedMin},
                   n \in 0..MaxCalldata}]

\* an opcode is about to run on the frame x0; x1 is the frame after it
WordInit ==
    /\ Idle
    /\ \E in \in WordInputs :
          unit = [kind |-> "word", op |-> in.op, x0 |-> in.x0, x1 |-> in.x0, ran |-> FALSE]

RunWord(op, x1) ==
    /\ unit.kind = "word" /\ ~unit.ran /\ unit.op = op
    /\ unit' = [unit EXCEPT !.x1 = x1, !.ran = TRUE]
    /\ UNCHANGED machine

RunSLT == RunWord("SLT", Op_SLT(unit.x0))

RunSGT == RunWord("SGT", Op_SGT(unit.x0))

RunSMOD == RunWord("SMOD", Op_SMOD(unit.x0))

RunSIGNEXTEND == RunWord("SIGNEXTEND", Op_SIGNEXTEND(unit.x0))

RunEXP == RunWord("EXP", Op_EXP(unit.x0))

RunSHA3 == RunWord("SHA3", Op_SHA3(unit.x0))

RunCALLDATALOAD == RunWord("CALLDATALOAD", Op_CALLDATALOAD(unit.x0))

WordNext ==
    RunSLT \/ RunSGT \/ RunSMOD \/ RunSIGNEXTEND \/ RunEXP \/ RunSHA3 \/ RunCALLDATALOAD

WordSpec == WordInit /\ [][WordNext]_vars

\* the word read as a signed integer is negative
Word_negative(w) == w[1] >= 128

\* a < b with both words read as two's-complement signed integers
Signed_lt(a, b) ==
    IF Word_negative(a) # Word_negative(b) THEN Word_negative(a) ELSE U256_lt(a, b)

WordRan(op) == unit.kind = "word" /\ unit.ran /\ unit.op = op

\* C35: SLT pushes 1 exactly when a < b and SGT pushes 1 exactly when a > b,
\* a (the top of the stack) and b read as two's-complement signed words, for
\* every pair of operands, pairs of mixed sign included; otherwise they push 0.
C35_SignedComparison ==
    LET a == Top(unit.x0.stack, 1)
        b == Top(unit.x0.stack, 2)
    IN  /\ WordRan("SLT") =>
              /\ unit.x1.flow = "Continue"
              /\ Top(unit.x1.stack, 1) = IF Signed_lt(a, b) THEN U256_one ELSE U256_zero
        /\ WordRan("SGT") =>
              /\ unit.x1.flow = "Continue"
              /\ Top(unit.x1.stack, 1) = IF Signed_lt(b, a) THEN U256_one ELSE U256_zero

\* the magnitude of a word read as a signed integer
Word_magnitude(w) == IF Word_negative(w) THEN U256_twos(w) ELSE w

\* the signed remainder of a by b: |a| mod |b| with the sign of a
Signed_rem(a, b) ==
    LET r == U256_rem(Word_magnitude(a), Word_magnitude(b))
    IN  IF Word_negative(a) THEN U256_twos(r) ELSE r

\* C36: SMOD with a non-zero b pushes the signed remainder of a by b: its
\* magnitude is |a| mod |b| and its sign is the sign of the dividend a;
\* with b = 0 it pushes 0.
C36_SignedRemainder ==
    LET a == Top(unit.x0.stack, 1)
        b == Top(unit.x0.stack, 2)
    IN  WordRan("SMOD") =>
            /\ unit.x1.flow = "Continue"
            /\ Top(unit.x1.stack, 1) = IF U256_is_zero(b) THEN U256_zero ELSE Signed_rem(a, b)

\* the word x sign-extended from the byte of index k < 31: the bits up to
\* 8 * (k + 1) - 1 are those of x, the bits above all equal that one
Sign_extended(x, k) ==
    LET s == WordBit(x, 8 * (k + 1) - 1) = 1
    IN  [i \in 1..WordBytes |->
            IF i >= WordBytes - k THEN x[i] ELSE IF s THEN 255 ELSE 0]

\* C37: SIGNEXTEND with byte index k < 31 and value x pushes x sign-extended
\* from bit 8 * (k + 1) - 1 (the low bits are those of x, every higher bit
\* equals the sign bit, cleared when it is 0); with k >= 31 it pushes x; the
\* frame does not fail.
C37_SignExtend ==
    LET k == Top(unit.x0.stack, 1)
        x == Top(unit.x0.stack, 2)
    IN  WordRan("SIGNEXTEND") =>
            /\ unit.x1.flow = "Continue"
            /\ Top(unit.x1.stack, 1) =
                   IF U256_lt(k, U256_from(31)) THEN Sign_extended(x, k[WordBytes]) ELSE x

\* the number of bytes needed to represent the word, 0 for zero
Word_byte_length(w) ==
    IF \A i \in 1..WordBytes : w[i] = 0 THEN 0
    ELSE WordBytes + 1 - (CHOOSE i \in 1..WordBytes : w[i] # 0 /\ \A j \in 1..(i - 1) : w[j] = 0)

\* C38: EXP adds to the gas counter 10 plus 50 for each byte of a non-zero
\* exponent, and exactly 10 when the exponent is zero.
C38_ExpGas ==
    WordRan("EXP") =>
        /\ unit.x1.flow = "Continue"
        /\ unit.x1.gas = unit.x0.gas + 10 + 50 * Word_byte_length(Top(unit.x0.stack, 2))

\* C39: SHA3 over size bytes adds 30 + 6 * ceil(size / 32) to the gas
\* counter, for every size, 0 and the multiples of 32 included.
C39_Sha3Gas ==
    LET size == BigEndian(Top(unit.x0.stack, 2))
    IN  WordRan("SHA3") =>
            /\ unit.x1.flow = "Continue"
            /\ unit.x1.gas = unit.x0.gas + 30 + 6 * ((size + 31) \div 32)

\* the 32 bytes of the calldata from the offset on, every byte at or past
\* the end of the calldata read as zero
Calldata_word(calldata, offset) ==
    [i \in 1..WordBytes |-> IF offset + i <= Len(calldata) THEN calldata[offset + i] ELSE 0]

\* C40: CALLDATALOAD at offset i pushes the 32 bytes calldata[i..i+32], every
\* byte at or past the end of the calldata read as zero, for every offset and
\* every calldata length (empty calldata and offsets beyond the end
\* included), and the frame does not fail.
C40_CalldataLoad ==
    LET i == Top(unit.x0.stack, 1)
    IN  WordRan("CALLDATALOAD") =>
            /\ unit.x1.flow = "Continue"
            /\ Top(unit.x1.stack, 1) =
                   IF IsSmall(i) THEN Calldata_word(unit.x0.calldata, Small(i)) ELSE U256_zero

====
